---------------------------- MODULE Spec2Model ----------------------------
(***************************************************************************)
(* Model of the pet-profile app.                                           *)
(*                                                                         *)
(* app/utils/customerDataUtils.js: the paginated collector                 *)
(* fetchCustomersWithPagination in its two live variants (fixed segment    *)
(* id, segment looked up by name), extractIdFromGid, the field sanitizer,  *)
(* processCustomerData in both definitions, the completeness scorer and    *)
(* generateDimensionData.                                                  *)
(* app/routes/app-proxy.pet-profile.jsx: the profile submission action.    *)
(* extensions/pet-profile-ui/src/index.jsx: the customer's profile form.   *)
(* app/routes/app.view-profiles.jsx: filtering and paging of the table.    *)
(* app/routes/app._index.jsx: the dashboard's overall data completeness.   *)
(*                                                                         *)
(* JavaScript values are tagged records: Null, Undefined, Str(s) with s a  *)
(* sequence of one-character strings, Msg(text) for the fixed message      *)
(* texts of errors.  The Admin API client (admin.graphql) is the           *)
(* environment: every response to a call is chosen nondeterministically.   *)
(* Each part has its own specification; the variables of the other parts   *)
(* stay at their idle values.                                              *)
(***************************************************************************)
EXTENDS Integers, Sequences, FiniteSets, TLC

\* ------------------------------------------------------------------ bounds
\* Largest maxCustomers a run is started with (0..MaxCap).
MaxCap == 4

\* Largest ordinary batchSize a run is started with, and the largest number
\* of edges the remote puts into one page.
MaxBatch == 2

\* Number of page requests after which the model stops issuing requests.
MaxRequests == 3

\* The Admin API's per-page ceiling for `first`.
ApiPageLimit == 250

\* Longest string handed to a string function under test.
MaxStringLen == 4

\* ------------------------------------------------------- JavaScript values
Null == [t |-> "null"]

Undefined == [t |-> "undefined"]

Str(s) == [t |-> "string", s |-> s]

Msg(text) == [t |-> "message", text |-> text]

Num(n) == [t |-> "number", n |-> n]

Bool(b) == [t |-> "boolean", b |-> b]

\* An object whose contents do not matter.
Obj == [t |-> "object"]

IsString(v) == v.t = "string"

\* JavaScript truthiness of a value (!!v).
Truthy(v) ==
  CASE v.t = "string" -> Len(v.s) > 0
    [] v.t = "message" -> v.text # ""
    [] v.t = "number" -> v.n # 0
    [] v.t = "boolean" -> v.b
    [] v.t = "object" -> TRUE
    [] OTHER -> FALSE

\* a || b
Or(a, b) == IF Truthy(a) THEN a ELSE b

Space == " "

RECURSIVE TrimStart(_)
TrimStart(s) ==
  IF s # <<>> /\ Head(s) = Space THEN TrimStart(Tail(s)) ELSE s

RECURSIVE TrimEnd(_)
TrimEnd(s) ==
  IF s # <<>> /\ s[Len(s)] = Space THEN TrimEnd(SubSeq(s, 1, Len(s) - 1)) ELSE s

\* String.prototype.trim on a sequence of characters.
Trim(s) == TrimEnd(TrimStart(s))

\* ------------------------------------------------------ profile attributes
Fields == <<"pet_type", "stress_level", "drug_usage", "pet_age", "pet_weight">>

FieldSet == {Fields[i] : i \in 1..Len(Fields)}

\* Mutant: the string returned as it came, without trim().
sanitizeMetafieldValueUntrimmed(value) ==
  IF ~Truthy(value) \/ ~IsString(value) THEN Str(<<>>) ELSE value

\* sanitizeMetafieldValue(value)
sanitizeMetafieldValue(value) ==
  IF ~Truthy(value) \/ ~IsString(value) THEN Str(<<>>) ELSE Str(Trim(value.s))

\* The per-field test shared by isCompleteProfile and getProfileCompleteness:
\* value && value.trim() !== ''   (value is a string, null or undefined)
FieldFilled(value) == Truthy(value) /\ Trim(value.s) # <<>>

\* ---------------------------------------------------- completeness scorer
\* Array.prototype.every over Fields from index i on: stops at the first
\* field that fails the test.
RECURSIVE EveryFieldFrom(_, _)
EveryFieldFrom(customer, i) ==
  IF i > Len(Fields) THEN TRUE
  ELSE IF FieldFilled(customer[Fields[i]]) THEN EveryFieldFrom(customer, i + 1)
  ELSE FALSE

\* Mutant: requiredFields.some(...) in place of requiredFields.every(...).
isCompleteProfileSome(customer) ==
  \E i \in 1..Len(Fields) : FieldFilled(customer[Fields[i]])

\* isCompleteProfile(customer)
isCompleteProfile(customer) == EveryFieldFrom(customer, 1)

\* Math.round(num / den) for num >= 0, den > 0: floor(num/den + 1/2).
MathRound(num, den) == (2 * num + den) \div (2 * den)

\* Mutant: the filter without the trim test, customer[field] alone.
completedFieldsUntrimmed(customer) ==
  SelectSeq(Fields, LAMBDA field : Truthy(customer[field]))

\* fields.filter(field => customer[field] && customer[field].trim() !== '')
completedFields(customer) ==
  SelectSeq(Fields, LAMBDA field : FieldFilled(customer[field]))

\* getProfileCompleteness(customer)
getProfileCompleteness(customer) ==
  MathRound(Len(completedFields(customer)) * 100, Len(Fields))

\* ------------------------------------------------------------ raw entries
Digits == <<"0", "1", "2", "3", "4", "5", "6", "7", "8", "9">>

DigitChars == {Digits[i] : i \in 1..Len(Digits)}

\* The characters \w matches.
WordChars ==
  DigitChars \cup
  {"a", "b", "c", "d", "e", "f", "g", "h", "i", "j", "k", "l", "m", "n",
   "o", "p", "q", "r", "s", "t", "u", "v", "w", "x", "y", "z", "A", "B",
   "C", "D", "E", "F", "G", "H", "I", "J", "K", "L", "M", "N", "O", "P",
   "Q", "R", "S", "T", "U", "V", "W", "X", "Y", "Z", "_"}

\* "gid://shopify/"
GidScheme == <<"g", "i", "d", ":", "/", "/", "s", "h", "o", "p", "i", "f", "y", "/">>

CustomerSegmentMemberType == <<"C", "u", "s", "t", "o", "m", "e", "r", "S", "e", "g", "m", "e", "n", "t", "M", "e", "m", "b", "e", "r">>

CustomerType == <<"C", "u", "s", "t", "o", "m", "e", "r">>

SegmentType == <<"S", "e", "g", "m", "e", "n", "t">>

Slash == "/"

\* A remote identifier gid://shopify/<type>/<digits>.
Gid(type, digits) == Str(GidScheme \o type \o <<Slash>> \o digits)

\* The decimal digits of a natural number.
RECURSIVE ToDigits(_)
ToDigits(n) ==
  IF n < 10 THEN <<Digits[n + 1]>>
  ELSE ToDigits(n \div 10) \o <<Digits[(n % 10) + 1]>>

\* The literal p occurs in s at index i.
OccursAt(p, s, i) ==
  /\ i + Len(p) - 1 <= Len(s)
  /\ \A k \in 1..Len(p) : s[i + k - 1] = p[k]

\* The end of the longest run of characters of cs that starts at index i of
\* s (i - 1 when s[i] is not in cs).
RunEnd(cs, s, i) ==
  CHOOSE j \in (i - 1)..Len(s) :
    /\ \A k \in i..j : s[k] \in cs
    /\ j = Len(s) \/ s[j + 1] \notin cs

NoMatch == [t |-> "null"]

\* The smallest element of a non-empty set of indices.
First(S) == CHOOSE i \in S : \A j \in S : i <= j

\* s.match(/<literal>(\d+)/): the digits captured by the leftmost match.
MatchLiteralDigits(literal, s) ==
  LET at == {i \in 1..Len(s) :
               /\ OccursAt(literal, s, i)
               /\ RunEnd(DigitChars, s, i + Len(literal)) >= i + Len(literal)}
  IN  IF at = {} THEN NoMatch
      ELSE LET d == First(at) + Len(literal)
           IN  Str(SubSeq(s, d, RunEnd(DigitChars, s, d)))

\* s.match(/gid:\/\/shopify\/(\w+)\/(\d+)/): the last group captured by the
\* leftmost match.  \w+ must run up to a '/', which \w does not match.
MatchAnyTypeDigits(s) ==
  LET slashAfter(i) == RunEnd(WordChars, s, i + Len(GidScheme)) + 1
      at == {i \in 1..Len(s) :
               /\ OccursAt(GidScheme, s, i)
               /\ slashAfter(i) > i + Len(GidScheme)
               /\ slashAfter(i) <= Len(s)
               /\ s[slashAfter(i)] = Slash
               /\ RunEnd(DigitChars, s, slashAfter(i) + 1) > slashAfter(i)}
  IN  IF at = {} THEN NoMatch
      ELSE LET d == slashAfter(First(at)) + 1
           IN  Str(SubSeq(s, d, RunEnd(DigitChars, s, d)))

\* s.match(/(\d+)$/): the run of digits s ends with.
MatchTrailingDigits(s) ==
  LET from == {i \in 1..Len(s) : \A k \in i..Len(s) : s[k] \in DigitChars}
  IN  IF from = {} THEN NoMatch ELSE Str(SubSeq(s, First(from), Len(s)))

\* Mutant: the fallback /(\d+)$/ left out, the identifier returned as it is
\* when none of the three patterns matches.
extractIdFromGidNoFallback(gid) ==
  IF ~Truthy(gid) \/ ~IsString(gid) THEN Str(<<>>)
  ELSE LET m1 == MatchLiteralDigits(GidScheme \o CustomerSegmentMemberType \o <<Slash>>, gid.s)
           m2 == MatchLiteralDigits(GidScheme \o CustomerType \o <<Slash>>, gid.s)
           m3 == MatchAnyTypeDigits(gid.s)
       IN  IF m1.t # "null" THEN m1
           ELSE IF m2.t # "null" THEN m2
           ELSE IF m3.t # "null" THEN m3
           ELSE gid

\* extractIdFromGid(gid)
extractIdFromGid(gid) ==
  IF ~Truthy(gid) \/ ~IsString(gid) THEN Str(<<>>)
  ELSE LET m1 == MatchLiteralDigits(GidScheme \o CustomerSegmentMemberType \o <<Slash>>, gid.s)
           m2 == MatchLiteralDigits(GidScheme \o CustomerType \o <<Slash>>, gid.s)
           m3 == MatchAnyTypeDigits(gid.s)
           numericMatch == MatchTrailingDigits(gid.s)
       IN  IF m1.t # "null" THEN m1
           ELSE IF m2.t # "null" THEN m2
           ELSE IF m3.t # "null" THEN m3
           ELSE IF numericMatch.t # "null" THEN numericMatch
           ELSE gid

\* id.split('/').pop() for a string id: what follows the last '/'.
SplitPop(gid) ==
  LET slashes == {i \in 1..Len(gid.s) : gid.s[i] = Slash}
      last == IF slashes = {} THEN 0
              ELSE CHOOSE i \in slashes : \A j \in slashes : i >= j
  IN  Str(SubSeq(gid.s, last + 1, Len(gid.s)))

A == Str(<<"a">>)

\* The contents of a segment member as the remote returns it, without its
\* id: mf[f] is Null when the customer has no metafield f, else its value.
BareNode ==
  [firstName |-> Null, lastName |-> Null, displayName |-> Null,
   defaultEmailAddress |-> Null, numberOfOrders |-> Undefined,
   amountSpent |-> Null,
   mf |-> [f \in FieldSet |-> Null]]

PaddedNode ==
  [firstName |-> A, lastName |-> A, displayName |-> Null,
   defaultEmailAddress |-> A, numberOfOrders |-> Num(2),
   amountSpent |-> Null,
   mf |-> [f \in FieldSet |->
             CASE f = "pet_type" -> Str(<<" ", "a">>)
               [] f = "stress_level" -> A
               [] f = "drug_usage" -> Str(<<" ">>)
               [] f = "pet_age" -> Null
               [] OTHER -> Str(<<"a", " ">>)]]

FullNode ==
  [firstName |-> A, lastName |-> Null, displayName |-> A,
   defaultEmailAddress |-> A, numberOfOrders |-> Undefined,
   amountSpent |-> Null,
   mf |-> [f \in FieldSet |-> A]]

NodeKinds == {BareNode, PaddedNode, FullNode}

\* The node at position n of the segment, with contents k.
Node(n, k) == [id |-> Gid(CustomerSegmentMemberType, ToDigits(n))] @@ k

\* node.<f>?.value
MetafieldValue(node, f) ==
  IF node.mf[f].t = "null" THEN Undefined ELSE node.mf[f]

\* node.defaultEmailAddress?.emailAddress
EmailAddress(node) ==
  IF node.defaultEmailAddress.t = "null" THEN Undefined
  ELSE node.defaultEmailAddress

\* metafields[key] after the forEach over member.metafields.edges
MetafieldsByKey(member, key) ==
  IF member.mf[key].t = "null" THEN Undefined ELSE member.mf[key]

\* ------------------------------------------------------- record assembly
\* The mapping of one segment member in the fixed-segment collector:
\* segmentMembers.edges.map(({ node }) => ({ ... }))
MapSegmentNode(node) ==
  [id |-> extractIdFromGid(node.id),
   firstName |-> node.firstName,
   lastName |-> node.lastName,
   email |-> Or(EmailAddress(node), Null),
   pet_type |-> Or(MetafieldValue(node, "pet_type"), Null),
   stress_level |-> Or(MetafieldValue(node, "stress_level"), Null),
   drug_usage |-> Or(MetafieldValue(node, "drug_usage"), Null),
   pet_age |-> Or(MetafieldValue(node, "pet_age"), Null),
   pet_weight |-> Or(MetafieldValue(node, "pet_weight"), Null)]

UnknownCustomer == Str(<<"U", "n", "k", "n", "o", "w", "n", " ", "C", "u", "s", "t", "o", "m", "e", "r">>)

\* `${member.firstName || ''} ${member.lastName || ''}`.trim()
FullName(member) ==
  Str(Trim(Or(member.firstName, Str(<<>>)).s \o <<Space>>
           \o Or(member.lastName, Str(<<>>)).s))

\* The mapping of one segment member in the segment-by-name collector:
\* segmentMembers.map(edge => { ... }).  No modelled member carries an
\* amountSpent object, so that field is always null.
MapSegmentMember(member) ==
  [id |-> SplitPop(member.id),
   gid |-> member.id,
   firstName |-> Or(member.firstName, Str(<<>>)),
   lastName |-> Or(member.lastName, Str(<<>>)),
   email |-> Str(<<>>),
   displayName |-> Or(member.displayName, Or(FullName(member), UnknownCustomer)),
   numberOfOrders |-> Or(member.numberOfOrders, Num(0)),
   amountSpent |-> Null,
   pet_type |-> sanitizeMetafieldValue(MetafieldsByKey(member, "pet_type")),
   stress_level |-> sanitizeMetafieldValue(MetafieldsByKey(member, "stress_level")),
   drug_usage |-> sanitizeMetafieldValue(MetafieldsByKey(member, "drug_usage")),
   pet_age |-> sanitizeMetafieldValue(MetafieldsByKey(member, "pet_age")),
   pet_weight |-> sanitizeMetafieldValue(MetafieldsByKey(member, "pet_weight"))]

\* edges.map(...) of the variant in use.
MapEdges(var, edges) ==
  [i \in 1..Len(edges) |->
     IF var = "fixedSegment" THEN MapSegmentNode(edges[i])
     ELSE MapSegmentMember(edges[i])]

\* ------------------------------------------------------------------ state
VARIABLES
  variant,        \* which fetchCustomersWithPagination runs
  maxCustomers,   \* parameter maxCustomers
  batchSize,      \* parameter batchSize
  pc,             \* position of the run
  allCustomers,   \* let allCustomers
  hasNextPage,    \* let hasNextPage
  cursor,         \* let cursor
  totalFetched,   \* let totalFetched
  segment,        \* const petProfileSegment (segment-by-name variant)
  result,         \* the value the run returns
  requests,       \* log: variables of every page request issued
  responses,      \* log: the remote's answer to every page request
  served,         \* log: position and contents of every edge delivered
  lookups,        \* log: number of segment-lookup calls issued
  customer,       \* scorer: the record under test
  complete,       \* scorer: isCompleteProfile(customer)
  score,          \* scorer: getProfileCompleteness(customer)
  arg,            \* pure function under test: its argument
  ret,            \* pure function under test: what the call produced
  route,          \* submission: which action handles the request
  sessionToken,   \* submission: const { sessionToken } of the request
  body,           \* submission: the JSON body of the request
  routePc,        \* submission: position of the action
  adminCalls,     \* submission: log of the variables of every mutation sent
  mutationResult, \* submission: how the Admin API answered the mutation
  httpResponse,   \* submission: the Response the action returns
  metafields,     \* form: the customer's metafields in namespace "variables"
  token,          \* form: useState token
  fields,         \* form: useState fields
  loading,        \* form: useState loading
  status,         \* form: useState status
  isFirstSubmission, \* form: useState isFirstSubmission
  saving,         \* form: useState saving
  inFlight,       \* form: the save request handleSubmit is awaiting
  shown,          \* form: log, what each successful submission displayed
  calls,          \* two runs: the arguments of each call of the collector
  callPc,         \* two runs: where each call stands
  frames,         \* two runs: the let-declared variables, by frame
  received,       \* two runs: log, the page responses each call was given
  returned,       \* two runs: what each call returned
  loaderData,     \* table: useLoaderData() of the customer-profiles page
  filters,        \* table: the eight filter states
  filteredCustomers, \* table: useState filteredCustomers
  currentPage,    \* table: useState currentPage
  lastEvent       \* table: the event handled last

collectorVars ==
  <<variant, maxCustomers, batchSize, pc, allCustomers, hasNextPage, cursor,
    totalFetched, segment, result, requests, responses, served, lookups>>

scorerVars == <<customer, complete, score>>

pureVars == <<arg, ret>>

submitVars ==
  <<route, sessionToken, body, routePc, adminCalls, mutationResult,
    httpResponse>>

formVars ==
  <<metafields, token, fields, loading, status, isFirstSubmission, saving,
    inFlight, shown>>

runsVars == <<calls, callPc, frames, received, returned>>

tableVars ==
  <<loaderData, filters, filteredCustomers, currentPage, lastEvent>>

vars == <<collectorVars, scorerVars, pureVars, submitVars, formVars, runsVars, tableVars>>

\* What a step of the collector, of the scorer, of a pure-function call
\* leaves alone.
outsideCollector == <<scorerVars, pureVars, submitVars, formVars, runsVars, tableVars>>

outsideScorer == <<collectorVars, pureVars, submitVars, formVars, runsVars, tableVars>>

outsidePure == <<collectorVars, scorerVars, submitVars, formVars, runsVars, tableVars>>

outsideSubmit == <<collectorVars, scorerVars, pureVars, formVars, runsVars, tableVars>>

outsideForm == <<collectorVars, scorerVars, pureVars, submitVars, runsVars, tableVars>>

outsideRuns == <<collectorVars, scorerVars, pureVars, submitVars, formVars, tableVars>>

outsideTable == <<collectorVars, scorerVars, pureVars, submitVars, formVars, runsVars>>

Variants == {"fixedSegment", "byName"}

\* The batch sizes a run is started with: small ones, and one above the
\* Admin API's per-page ceiling.
BatchSizes == (1..MaxBatch) \cup {ApiPageLimit + 1}

Pending == [t |-> "pending"]

Min(a, b) == IF a < b THEN a ELSE b

\* -------------------------------------------------------------- collector
\* Mutant: the loop runs while the cap is not exceeded, whatever the page
\* said about further pages.
LoopConditionNoHasNext(hasNext, fetched, cap) == fetched < cap

\* Mutant: <= for <.
LoopConditionInclusive(hasNext, fetched, cap) == hasNext /\ fetched <= cap

\* while (hasNextPage && totalFetched < maxCustomers)
LoopCondition(hasNext, fetched, cap) == hasNext /\ fetched < cap

\* Mutant: every request starts from the beginning of the collection.
RequestVariablesFromStart(size, after) == [first |-> size, after |-> Null]

\* variables: { first: batchSize, after: cursor, ... }
RequestVariables(size, after) == [first |-> size, after |-> after]

\* The value of error.message for what a failed call throws.
\* admin.graphql rejecting with an Error:
NetworkError == [message |-> Msg("request failed")]

\* admin.graphql rejecting with a value that has no message property (the
\* Remix Admin client throws a Response for an HTTP error):
ThrownResponse == [message |-> Undefined]

\* throw new Error("Failed to fetch segment customer data") and its
\* counterparts in the segment-by-name variant:
QueryError(var, step) ==
  [message |->
     IF var = "fixedSegment" THEN Msg("Failed to fetch segment customer data")
     ELSE IF step = "lookup" THEN Msg("Failed to fetch segment data")
     ELSE Msg("Failed to fetch segment members")]

\* TypeError raised by reading a property of a payload that lacks it:
PayloadTypeError == [message |-> Msg("Cannot read properties of undefined")]

\* Everything a page request (or the segment lookup) can throw.
Thrown(var, step) ==
  {NetworkError, ThrownResponse, QueryError(var, step), PayloadTypeError}

\* The object returned by the catch block.
CatchResult(error, cap) ==
  [customers |-> <<>>,
   totalCustomers |-> 0,
   error |-> error.message,
   paginationInfo |-> [hasMore |-> FALSE, totalFetched |-> 0,
                       maxCustomers |-> cap]]

\* The object returned when no segment named "Pet Profile" exists.
SegmentNotFoundResult(cap) ==
  [customers |-> <<>>,
   totalCustomers |-> 0,
   error |-> Msg("Pet Profile segment not found"),
   paginationInfo |-> [hasMore |-> FALSE, totalFetched |-> 0,
                       maxCustomers |-> cap]]

\* Mutant: hasMore derived from the cap alone.
ReturnResultCapOnly(customers, hasNext, fetched, cap) ==
  [customers |-> customers,
   totalCustomers |-> Len(customers),
   error |-> Null,
   paginationInfo |-> [hasMore |-> fetched >= cap, totalFetched |-> fetched,
                       maxCustomers |-> cap]]

\* The object returned after the loop.
ReturnResult(customers, hasNext, fetched, cap) ==
  [customers |-> customers,
   totalCustomers |-> Len(customers),
   error |-> Null,
   paginationInfo |-> [hasMore |-> hasNext, totalFetched |-> fetched,
                       maxCustomers |-> cap]]

\* allCustomers = allCustomers.concat(customers)
Concat(all, customers) == all \o customers

\* Mutant: totalFetched = customers.length (assignment for +=).
AssignFetched(fetched, customers) == Len(customers)

\* totalFetched += customers.length
AddFetched(fetched, customers) == fetched + Len(customers)

Cursor(position) == [t |-> "cursor", position |-> position]

\* The position a cursor stands for in the remote collection.
Position(after) == IF after.t = "cursor" THEN after.position ELSE 0

\* pageInfo.endCursor as a Relay connection reports it: the cursor of the
\* last edge of the page, null for a page without edges.
EndCursor(after, n) == IF n = 0 THEN Null ELSE Cursor(Position(after) + n)

\* The fixed segment id of the fixed-segment variant.
segmentGID == Gid(SegmentType, <<"5", "3", "7", "3", "1", "9", "1", "7", "8", "4", "5", "9">>)

inputs == <<variant, maxCustomers, batchSize>>

logs == <<requests, responses, served, lookups>>

locals == <<allCustomers, hasNextPage, cursor, totalFetched>>

\* No collector run is in progress.
CollectorIdle ==
  /\ variant = "fixedSegment"
  /\ maxCustomers = 0
  /\ batchSize = 1
  /\ pc = "idle"
  /\ allCustomers = <<>>
  /\ hasNextPage = TRUE
  /\ cursor = Null
  /\ totalFetched = 0
  /\ segment = segmentGID
  /\ result = Pending
  /\ requests = <<>>
  /\ responses = <<>>
  /\ served = <<>>
  /\ lookups = 0

\* No scorer call is in progress.
ScorerIdle ==
  /\ customer = Pending
  /\ complete = Pending
  /\ score = Pending

\* No pure-function call is in progress.
PureIdle ==
  /\ arg = Pending
  /\ ret = Pending

\* No profile submission is being handled.
SubmitIdle ==
  /\ route = "proxy"
  /\ sessionToken = Null
  /\ body = Pending
  /\ routePc = "idle"
  /\ adminCalls = <<>>
  /\ mutationResult = Pending
  /\ httpResponse = Pending

\* No profile form is mounted.
FormIdle ==
  /\ metafields = Pending
  /\ token = Null
  /\ fields = Pending
  /\ loading = FALSE
  /\ status = Null
  /\ isFirstSubmission = FALSE
  /\ saving = FALSE
  /\ inFlight = Pending
  /\ shown = <<>>

\* No pair of concurrent collector calls is in progress.
RunsIdle ==
  /\ calls = Pending
  /\ callPc = Pending
  /\ frames = Pending
  /\ received = Pending
  /\ returned = Pending

\* The customer-profiles page is not mounted.
TableIdle ==
  /\ loaderData = Pending
  /\ filters = Pending
  /\ filteredCustomers = <<>>
  /\ currentPage = 1
  /\ lastEvent = "none"

\* A call fetchCustomersWithPagination(admin, maxCustomers, batchSize) has
\* been made; nothing of its body has run.
Init ==
  /\ variant \in Variants
  /\ maxCustomers \in 0..MaxCap
  /\ batchSize \in BatchSizes
  /\ pc = "start"
  /\ allCustomers = <<>>
  /\ hasNextPage = TRUE
  /\ cursor = Null
  /\ totalFetched = 0
  /\ segment = (IF variant = "fixedSegment" THEN segmentGID ELSE Undefined)
  /\ result = Pending
  /\ requests = <<>>
  /\ responses = <<>>
  /\ served = <<>>
  /\ lookups = 0
  /\ TableIdle
  /\ RunsIdle
  /\ FormIdle
  /\ SubmitIdle
  /\ ScorerIdle
  /\ PureIdle

\* Fixed-segment variant: the try block is entered and the locals declared.
BeginFixedSegment ==
  /\ pc = "start"
  /\ variant = "fixedSegment"
  /\ pc' = "loop"
  /\ UNCHANGED <<inputs, locals, segment, result, logs, outsideCollector>>

\* Segment-by-name variant: the segment lookup query is sent first.
BeginByName ==
  /\ pc = "start"
  /\ variant = "byName"
  /\ lookups' = lookups + 1
  /\ pc' = "lookup"
  /\ UNCHANGED <<inputs, locals, segment, result, requests, responses, served,
                 outsideCollector>>

\* The lookup answers with a segment named "Pet Profile".
LookupFound ==
  /\ pc = "lookup"
  /\ segment' = Gid(SegmentType, <<"1">>)
  /\ pc' = "loop"
  /\ UNCHANGED <<inputs, locals, result, logs, outsideCollector>>

\* The lookup answers without such a segment: early return.
LookupNotFound ==
  /\ pc = "lookup"
  /\ result' = SegmentNotFoundResult(maxCustomers)
  /\ pc' = "done"
  /\ UNCHANGED <<inputs, locals, segment, logs, outsideCollector>>

\* The lookup throws, carries errors or is malformed: the catch block.
LookupFail ==
  /\ pc = "lookup"
  /\ \E error \in Thrown(variant, "lookup") :
       result' = CatchResult(error, maxCustomers)
  /\ pc' = "done"
  /\ UNCHANGED <<inputs, locals, segment, logs, outsideCollector>>

\* The loop condition holds: one page request is sent.
IssuePageRequest ==
  /\ pc = "loop"
  /\ LoopCondition(hasNextPage, totalFetched, maxCustomers)
  /\ Len(requests) < MaxRequests
  /\ requests' = Append(requests, RequestVariables(batchSize, cursor))
  /\ pc' = "await"
  /\ UNCHANGED <<inputs, locals, segment, result, responses, served, lookups,
                 outsideCollector>>

\* The page request is answered with a well-formed page of n edges (never
\* more than asked for), n' contents, and a hasNextPage flag; the body of
\* the loop runs up to the delay.
PageSuccess ==
  /\ pc = "await"
  /\ \E n \in 0..Min(batchSize, MaxBatch), more \in BOOLEAN :
       \E kinds \in [1..n -> NodeKinds] :
         LET after == requests[Len(requests)].after
             edges == [i \in 1..n |-> Node(Position(after) + i, kinds[i])]
             customers == MapEdges(variant, edges)
             endCursor == EndCursor(after, n)
         IN /\ allCustomers' = Concat(allCustomers, customers)
            /\ hasNextPage' = more
            /\ cursor' = endCursor
            /\ totalFetched' = AddFetched(totalFetched, customers)
            /\ served' = served \o [i \in 1..n |->
                                       [position |-> Position(after) + i,
                                        contents |-> kinds[i]]]
            /\ responses' = Append(responses,
                 [ok |-> TRUE, n |-> n, hasNextPage |-> more,
                  endCursor |-> endCursor])
            /\ pc' = IF LoopCondition(more, totalFetched', maxCustomers)
                     THEN "delay" ELSE "loop"
  /\ UNCHANGED <<inputs, segment, result, requests, lookups, outsideCollector>>

\* Mutant: a failed page is requested again.
PageFailRetry ==
  /\ pc = "await"
  /\ responses' = Append(responses,
       [ok |-> FALSE, n |-> 0, hasNextPage |-> FALSE, endCursor |-> Null])
  /\ pc' = "loop"
  /\ UNCHANGED <<inputs, locals, segment, result, requests, served, lookups,
                 outsideCollector>>

\* The page request throws, carries errors or is malformed: the catch block.
PageFail ==
  /\ pc = "await"
  /\ \E error \in Thrown(variant, "page") :
       result' = CatchResult(error, maxCustomers)
  /\ responses' = Append(responses,
       [ok |-> FALSE, n |-> 0, hasNextPage |-> FALSE, endCursor |-> Null])
  /\ pc' = "done"
  /\ UNCHANGED <<inputs, locals, segment, requests, served, lookups,
                 outsideCollector>>

\* setTimeout(resolve, 100) fires.
DelayElapsed ==
  /\ pc = "delay"
  /\ pc' = "loop"
  /\ UNCHANGED <<inputs, locals, segment, result, logs, outsideCollector>>

\* The loop condition fails: the run returns its result.
Return ==
  /\ pc = "loop"
  /\ ~LoopCondition(hasNextPage, totalFetched, maxCustomers)
  /\ result' = ReturnResult(allCustomers, hasNextPage, totalFetched,
                            maxCustomers)
  /\ pc' = "done"
  /\ UNCHANGED <<inputs, locals, segment, logs, outsideCollector>>

Next ==
  \/ BeginFixedSegment
  \/ BeginByName
  \/ LookupFound
  \/ LookupNotFound
  \/ LookupFail
  \/ IssuePageRequest
  \/ PageSuccess
  \/ PageFail
  \/ DelayElapsed
  \/ Return

Spec == Init /\ [][Next]_vars

\* ----------------------------------------------------------------- scorer
\* The values a profile attribute of a record can hold: null (fixed-segment
\* collector), undefined (attribute missing), and strings that are empty,
\* whitespace-only, trimmed and padded.
AttrValues ==
  {Null, Undefined, Str(<<>>), Str(<<" ">>), Str(<<"a">>),
   Str(<<" ", "a", " ">>)}

\* A record is handed to the scorer; neither function has been called.
InitScorer ==
  /\ TableIdle
  /\ RunsIdle
  /\ FormIdle
  /\ SubmitIdle
  /\ CollectorIdle
  /\ PureIdle
  /\ customer \in [FieldSet -> AttrValues]
  /\ complete = Pending
  /\ score = Pending

\* isCompleteProfile(customer) is called.
CallIsCompleteProfile ==
  /\ complete = Pending
  /\ complete' = Bool(isCompleteProfile(customer))
  /\ UNCHANGED <<outsideScorer, customer, score>>

\* getProfileCompleteness(customer) is called.
CallGetProfileCompleteness ==
  /\ score = Pending
  /\ score' = Num(getProfileCompleteness(customer))
  /\ UNCHANGED <<outsideScorer, customer, complete>>

NextScorer ==
  \/ CallIsCompleteProfile
  \/ CallGetProfileCompleteness

SpecScorer == InitScorer /\ [][NextScorer]_vars

\* ======================================================= properties
Done == pc = "done"

\* The run returned with error: null.
Completed == Done /\ result.error.t = "null"

\* The last page request was answered, and that answer is the last event.
LastResponse == responses[Len(responses)]

\* A page request of the run failed.
PageFailed == \E k \in 1..Len(responses) : ~responses[k].ok

RECURSIVE SumEntries(_)
SumEntries(rs) == IF rs = <<>> THEN 0 ELSE Head(rs).n + SumEntries(Tail(rs))

\* The edges the remote has delivered, in order.
ServedEdges ==
  [i \in 1..Len(served) |-> Node(served[i].position, served[i].contents)]

\* Every page served so far was full and reported a further page.
AllPagesFull ==
  \A k \in 1..Len(responses) :
    responses[k].ok /\ responses[k].hasNextPage
    /\ responses[k].n = requests[k].first

\* C1 (as stated): a run that completes without error returns at most
\* maxCustomers records; against a remote whose pages are all full and all
\* report a further page it returns exactly maxCustomers records with
\* hasMore = true.
C1_CapEnforced ==
  Completed =>
    /\ Len(result.customers) <= maxCustomers
    /\ AllPagesFull =>
         /\ Len(result.customers) = maxCustomers
         /\ result.paginationInfo.hasMore

\* C2 (as stated): when a page request fails the run returns error
\* non-null, hasMore = false, customers = [], totalCustomers = 0 and
\* totalFetched = 0.
C2_FailureAllOrNothing ==
  (Done /\ PageFailed) =>
    /\ result.error.t \notin {"null", "undefined"}
    /\ result.paginationInfo.hasMore = FALSE
    /\ result.customers = <<>>
    /\ result.totalCustomers = 0
    /\ result.paginationInfo.totalFetched = 0

\* C3 (as stated): every profile attribute of every returned record is a
\* string that is empty or trimmed and non-empty, never null or undefined.
C3_RecordInvariant ==
  Done =>
    \A i \in 1..Len(result.customers) : \A f \in FieldSet :
      /\ result.customers[i][f].t = "string"
      /\ Trim(result.customers[i][f].s) = result.customers[i][f].s

\* The clean-stop case: the last answer was a page that reported no further
\* page while fewer than maxCustomers records had been fetched.
CleanStopCase ==
  /\ Len(responses) > 0
  /\ LastResponse.ok
  /\ ~LastResponse.hasNextPage
  /\ totalFetched < maxCustomers

\* C4: after a page reports hasNextPage = false while totalFetched <
\* maxCustomers, no further page request is issued and the run returns,
\* with error = null, exactly the records of the edges of all pages
\* fetched, in page-arrival order and in-page order.
C4_CleanStop ==
  CleanStopCase =>
    /\ Len(requests) = Len(responses)
    /\ pc \in {"loop", "done"}
    /\ Done =>
         /\ result.error.t = "null"
         /\ result.customers = MapEdges(variant, ServedEdges)

C4_Witness ==
  /\ Done
  /\ CleanStopCase
  /\ Len(responses) = 3
  /\ \A k \in 1..3 : responses[k].n >= 1

\* C5 (as stated): with maxCustomers = 0 the run returns no records,
\* totalCustomers 0 and error null without any network call.
C5_CapZeroNoCall ==
  (Done /\ maxCustomers = 0) =>
    /\ result.customers = <<>>
    /\ result.totalCustomers = 0
    /\ result.error.t = "null"
    /\ requests = <<>>
    /\ lookups = 0

\* C5 (amended): with maxCustomers = 0 the run issues no page request and
\* returns no records and totalCustomers 0; the fixed-segment variant
\* issues no network call at all and returns error null; the
\* segment-by-name variant issues exactly its one segment-lookup call and
\* returns error null exactly when that lookup found the segment.
C5_CapZero ==
  (Done /\ maxCustomers = 0) =>
    /\ requests = <<>>
    /\ result.customers = <<>>
    /\ result.totalCustomers = 0
    /\ result.paginationInfo.totalFetched = 0
    /\ variant = "fixedSegment" => (lookups = 0 /\ result.error.t = "null")
    /\ variant = "byName" =>
         /\ lookups = 1
         /\ (result.error.t = "null") <=> (segment.t = "string")

C5_Witness ==
  /\ Done
  /\ maxCustomers = 0
  /\ variant = "byName"
  /\ lookups = 1
  /\ result.error.t = "null"

\* C6 (as stated): no page request is issued with a requested size above
\* the Admin API's ceiling of 250.
C6_PageSizeClamped ==
  \A k \in 1..Len(requests) : requests[k].first <= ApiPageLimit

\* C7 (as stated): a run that completes without error has hasMore = true
\* exactly when it stopped at the cap while the last fetched page reported
\* a further page; an aborted run has hasMore = false.
C7_HasMoreIffCapStop ==
  Done =>
    IF result.error.t = "null"
    THEN result.paginationInfo.hasMore <=>
           /\ totalFetched >= maxCustomers
           /\ Len(responses) > 0
           /\ LastResponse.hasNextPage
    ELSE result.paginationInfo.hasMore = FALSE

\* C7 (amended): a run that completes without error has hasMore = true
\* exactly when it stopped at the cap (totalFetched >= maxCustomers) while
\* either the last fetched page reported a further page or no page was
\* fetched at all (maxCustomers = 0, hasMore keeps its initial true); it
\* is false whenever the last page reported no further page, and always
\* false on an aborted run.
C7_HasMore ==
  Done =>
    IF result.error.t = "null"
    THEN /\ result.paginationInfo.hasMore <=>
              /\ totalFetched >= maxCustomers
              /\ (Len(responses) = 0 \/ LastResponse.hasNextPage)
         /\ (Len(responses) > 0 /\ ~LastResponse.hasNextPage)
              => ~result.paginationInfo.hasMore
    ELSE result.paginationInfo.hasMore = FALSE

C7_Witness ==
  /\ Completed
  /\ result.paginationInfo.hasMore
  /\ Len(responses) >= 2
  /\ LastResponse.hasNextPage
  /\ totalFetched >= maxCustomers

\* C8: at every point of the loop totalFetched equals the number of
\* accumulated records, and a run that returns without error has
\* totalCustomers = paginationInfo.totalFetched = customers.length = the
\* sum of the edge counts of the pages fetched.
C8_CountConsistency ==
  /\ totalFetched = Len(allCustomers)
  /\ Completed =>
       /\ result.totalCustomers = Len(result.customers)
       /\ result.paginationInfo.totalFetched = Len(result.customers)
       /\ Len(result.customers) = SumEntries(responses)

C8_Witness ==
  /\ Completed
  /\ Len(responses) >= 2
  /\ \A k \in 1..Len(responses) : responses[k].n >= 1

\* A failed page request is the last request and the last answer of the run.
FailureIsTerminal ==
  \A k \in 1..Len(responses) :
    ~responses[k].ok => (Len(requests) = k /\ Len(responses) = k)

C10_ScorerAgreement ==
  (complete.t = "boolean" /\ score.t = "number") =>
    (complete.b <=> score.n = 100)

C10_Witness ==
  /\ complete.t = "boolean"
  /\ score.t = "number"
  /\ complete.b
  /\ \E f \in FieldSet : customer[f] = Str(<<" ", "a", " ">>)

\* A value that is a string with at least one non-space character.
NonBlank(v) == v.t = "string" /\ \E i \in 1..Len(v.s) : v.s[i] # Space

\* C11: the completeness score of a record is an integer in [0, 100] equal
\* to round(100 * k / 5), k being the number of the five profile attributes
\* that are non-empty after trimming; so it is one of 0, 20, 40, 60, 80,
\* 100.
C11_ScoreValues ==
  score.t = "number" =>
    LET k == Cardinality({f \in FieldSet : NonBlank(customer[f])})
    IN  /\ score.n \in {0, 20, 40, 60, 80, 100}
        /\ 10 * score.n - 5 <= 200 * k
        /\ 200 * k < 10 * score.n + 5

C11_Witness ==
  /\ score.t = "number"
  /\ score.n = 60
  /\ \E f \in FieldSet : customer[f] = Str(<<" ">>)
  /\ \E f \in FieldSet : customer[f] = Null

\* ------------------------------------------------- pure-function calls
\* How a call ended: it returned a value, or it threw.
Returned(value) == [t |-> "returned", value |-> value]

Threw(error) == [t |-> "thrown", error |-> error]

\* All strings over the characters cs of length 0..n.
StringsUpTo(cs, n) == UNION {[1..k -> cs] : k \in 0..n}

\* Values handed to sanitizeMetafieldValue: the non-strings a metafield
\* lookup can yield and every string over ' ', 'a', 'b' up to MaxStringLen.
SanitizerInputs ==
  {Null, Undefined, Num(0), Num(42), Bool(FALSE), Bool(TRUE), Obj}
    \cup {Str(s) : s \in StringsUpTo({Space, "a", "b"}, MaxStringLen)}

\* sanitizeMetafieldValue(arg) is about to be called.
InitSanitize ==
  /\ TableIdle
  /\ RunsIdle
  /\ FormIdle
  /\ SubmitIdle
  /\ CollectorIdle
  /\ ScorerIdle
  /\ arg \in SanitizerInputs
  /\ ret = Pending

\* The call sanitizeMetafieldValue(arg) runs.
CallSanitizeMetafieldValue ==
  /\ ret = Pending
  /\ ret' = Returned(sanitizeMetafieldValue(arg))
  /\ UNCHANGED <<outsidePure, arg>>

NextSanitize == CallSanitizeMetafieldValue

SpecSanitize == InitSanitize /\ [][NextSanitize]_vars

\* s between its first and its last non-space character.
Trimmed(s) ==
  LET idx == {i \in 1..Len(s) : s[i] # Space}
  IN  IF idx = {} THEN <<>>
      ELSE SubSeq(s, CHOOSE i \in idx : \A j \in idx : i <= j,
                     CHOOSE i \in idx : \A j \in idx : i >= j)

\* C12: sanitizeMetafieldValue is total: for every input it returns a string
\* without throwing, the empty string for null, undefined and any
\* non-string, and the input without its leading and trailing whitespace
\* for a string.
C12_SanitizerTotal ==
  ret.t # "pending" =>
    /\ ret.t = "returned"
    /\ ret.value.t = "string"
    /\ arg.t # "string" => ret.value.s = <<>>
    /\ arg.t = "string" => ret.value.s = Trimmed(arg.s)

C12_Witness ==
  /\ arg = Str(<<Space, "a", Space, "b">>)
  /\ ret = Returned(Str(<<"a", Space, "b">>))

\* ------------------------------------------------- processCustomerData
\* Largest number of raw entries handed to processCustomerData.
MaxEdges == 2

\* The two definitions of processCustomerData: the first derives id with
\* extractIdFromGid, the second with id.split('/').pop().
Definitions == {"extractIdFromGid", "splitPop"}

B == Str(<<"b">>)

\* A raw customer node with the given id, email and metafields; a missing
\* property is Undefined, a customer without metafield f has mf[f] = Null.
RawNode(id, email, mf) ==
  [id |-> id, firstName |-> A, lastName |-> Undefined, email |-> email,
   state |-> Undefined, verifiedEmail |-> Bool(TRUE),
   numberOfOrders |-> Undefined, createdAt |-> A, updatedAt |-> Undefined,
   mf |-> mf]

NoMetafields == [f \in FieldSet |-> Null]

PaddedMetafields ==
  [f \in FieldSet |->
     CASE f = "pet_type" -> Str(<<Space, "a">>)
       [] f = "pet_age" -> Null
       [] OTHER -> A]

\* Metafields one of which holds a number instead of a string.
MistypedMetafields ==
  [f \in FieldSet |->
     CASE f = "pet_weight" -> Num(42)
       [] f = "pet_type" -> Null
       [] OTHER -> A]

RawNodes ==
  {RawNode(id, email, mf) :
     id \in {Gid(CustomerType, <<"7">>), Gid(CustomerType, <<"8">>), Undefined},
     email \in {B, Undefined},
     mf \in {NoMetafields, PaddedMetafields, MistypedMetafields}}

RawEdges == UNION {[1..k -> RawNodes] : k \in 0..MaxEdges}

MissingEmail == [error |-> "Missing email"]

MissingCustomerId == [error |-> "Missing customer ID"]

InvalidDataType(field) == [error |-> "Invalid data type", field |-> field]

\* validateCustomerData(customer)
validateCustomerData(c) ==
  (IF ~Truthy(c.email) THEN <<MissingEmail>> ELSE <<>>)
    \o (IF ~Truthy(c.id) THEN <<MissingCustomerId>> ELSE <<>>)
    \o [i \in 1..Len(SelectSeq(Fields, LAMBDA f : Truthy(c[f]) /\ ~IsString(c[f]))) |->
          InvalidDataType(SelectSeq(Fields, LAMBDA f : Truthy(c[f]) /\ ~IsString(c[f]))[i])]

TypeError == Msg("TypeError")

\* Whether building the record of one entry throws: the second definition
\* calls split on edge.node.id, a TypeError when id is not a string.
EntryThrows(definition, node) ==
  definition = "splitPop" /\ ~IsString(node.id)

\* The record built from one entry by the callback of edges.map.
ProcessEntry(definition, node) ==
  [id |-> IF definition = "extractIdFromGid" THEN extractIdFromGid(node.id)
          ELSE SplitPop(node.id),
   gid |-> node.id,
   firstName |-> Or(node.firstName, Str(<<>>)),
   lastName |-> Or(node.lastName, Str(<<>>)),
   email |-> Or(node.email, Str(<<>>)),
   state |-> Or(node.state, Str(<<>>)),
   verifiedEmail |-> Or(node.verifiedEmail, Bool(FALSE)),
   numberOfOrders |-> Or(node.numberOfOrders, Num(0)),
   createdAt |-> node.createdAt,
   updatedAt |-> node.updatedAt,
   pet_type |-> sanitizeMetafieldValue(MetafieldValue(node, "pet_type")),
   stress_level |-> sanitizeMetafieldValue(MetafieldValue(node, "stress_level")),
   drug_usage |-> sanitizeMetafieldValue(MetafieldValue(node, "drug_usage")),
   pet_age |-> sanitizeMetafieldValue(MetafieldValue(node, "pet_age")),
   pet_weight |-> sanitizeMetafieldValue(MetafieldValue(node, "pet_weight"))]

\* processCustomerData(edges) in the given definition: the records in
\* order and, per record with validation errors, the console.warn issued;
\* or the error the first failing callback throws.
processCustomerData(definition, edges) ==
  IF \E i \in 1..Len(edges) : EntryThrows(definition, edges[i])
  THEN Threw(TypeError)
  ELSE LET customers == [i \in 1..Len(edges) |-> ProcessEntry(definition, edges[i])]
       IN  Returned([customers |-> customers,
                     warnings |-> [i \in 1..Len(customers) |->
                                     validateCustomerData(customers[i])]])

\* processCustomerData(arg.edges) of definition arg.definition is about to
\* be called.
InitProcess ==
  /\ TableIdle
  /\ RunsIdle
  /\ FormIdle
  /\ SubmitIdle
  /\ CollectorIdle
  /\ ScorerIdle
  /\ arg \in [definition : Definitions, edges : RawEdges]
  /\ ret = Pending

\* The call processCustomerData(edges) runs.
CallProcessCustomerData ==
  /\ ret = Pending
  /\ ret' = processCustomerData(arg.definition, arg.edges)
  /\ UNCHANGED <<outsidePure, arg>>

NextProcess == CallProcessCustomerData

SpecProcess == InitProcess /\ [][NextProcess]_vars

\* C13: processCustomerData never drops an entry and never throws: its
\* result has one record per raw entry, in the order of the entries, also
\* for entries without id, without email or without metafields.
C13_NeverDropsNeverThrows ==
  ret.t # "pending" =>
    /\ ret.t = "returned"
    /\ Len(ret.value.customers) = Len(arg.edges)
    /\ \A i \in 1..Len(arg.edges) :
         /\ ret.value.customers[i].gid.t = arg.edges[i].id.t
         /\ ret.value.customers[i].gid = arg.edges[i].id
         /\ ret.value.customers[i].email.s = Or(arg.edges[i].email, Str(<<>>)).s

\* The values of a sequence.
Range(seq) == {seq[i] : i \in 1..Len(seq)}

\* A raw attribute value that is neither a string nor absent.
Mistyped(value) == value.t \notin {"string", "null", "undefined"}

\* C26 (as stated): the list validateCustomerData returns names the violated
\* rules in order (missing email, then missing id, then the attributes in
\* checklist order) and is empty iff the record is valid; and for a raw
\* entry one of whose attributes is neither a string nor absent,
\* processCustomerData produces the type diagnostic of that attribute.
C26_ValidationDiagnostics ==
  ret.t = "returned" =>
    \A i \in 1..Len(arg.edges) :
      LET c == ret.value.customers[i]
          w == ret.value.warnings[i]
          typed == SelectSeq(Fields,
                     LAMBDA f : InvalidDataType(f) \in Range(w))
      IN /\ w = (IF MissingEmail \in Range(w) THEN <<MissingEmail>> ELSE <<>>)
               \o (IF MissingCustomerId \in Range(w)
                   THEN <<MissingCustomerId>> ELSE <<>>)
               \o [k \in 1..Len(typed) |-> InvalidDataType(typed[k])]
         /\ MissingEmail \in Range(w) <=> ~Truthy(c.email)
         /\ MissingCustomerId \in Range(w) <=> ~Truthy(c.id)
         /\ \A f \in FieldSet :
              Mistyped(MetafieldValue(arg.edges[i], f)) =>
                InvalidDataType(f) \in Range(w)

\* ---------------------------------------------------- extractIdFromGid
SomeOtherType == <<"S", "o", "m", "e", "O", "t", "h", "e", "r", "T", "y", "p", "e">>

\* "gid:/shopify/CustomerSegmentMember/", the single-slash form of the
\* function's documentation.
SingleSlashPrefix == <<"g", "i", "d", ":", "/", "s", "h", "o", "p", "i", "f", "y", "/", "C", "u", "s", "t", "o", "m", "e", "r", "S", "e", "g", "m", "e", "n", "t", "M", "e", "m", "b", "e", "r", "/">>

GidTypes == {CustomerSegmentMemberType, CustomerType, SomeOtherType}

\* What an identifier under test starts with: nothing, the prefix of a
\* structured identifier of one of three types, or the single-slash prefix.
GidPrefixes ==
  {<<>>, SingleSlashPrefix} \cup {GidScheme \o type \o <<Slash>> : type \in GidTypes}

\* Identifiers handed to extractIdFromGid: non-strings, and every prefix
\* followed by every string over '1', '2', 'a', '/' up to MaxStringLen.
GidInputs ==
  {Null, Undefined, Num(7)}
    \cup {Str(prefix \o suffix) :
            prefix \in GidPrefixes,
            suffix \in StringsUpTo({"1", "2", "a", Slash}, MaxStringLen)}

\* extractIdFromGid(arg) is about to be called.
InitExtract ==
  /\ TableIdle
  /\ RunsIdle
  /\ FormIdle
  /\ SubmitIdle
  /\ CollectorIdle
  /\ ScorerIdle
  /\ arg \in GidInputs
  /\ ret = Pending

\* The call extractIdFromGid(arg) runs.
CallExtractIdFromGid ==
  /\ ret = Pending
  /\ ret' = Returned(extractIdFromGid(arg))
  /\ UNCHANGED <<outsidePure, arg>>

NextExtract == CallExtractIdFromGid

SpecExtract == InitExtract /\ [][NextExtract]_vars

\* The non-empty strings of digits under test.
DigitStrings == StringsUpTo({"1", "2"}, MaxStringLen) \ {<<>>}

\* s contains the literal p.
Contains(s, p) == \E i \in 1..Len(s) : OccursAt(p, s, i)

\* C14: for a structured identifier gid://shopify/<Type>/<digits>, and for
\* the single-slash form gid:/shopify/CustomerSegmentMember/<digits>,
\* extractIdFromGid returns exactly the trailing digits; for a plain
\* numeric id it returns the id unchanged; for a string no pattern can
\* match (no digit in it, or no digit at its end and no gid://shopify/ in
\* it) it returns the string unchanged.
C14_IdNormalization ==
  (ret.t # "pending" /\ arg.t = "string") =>
    /\ ret.t = "returned"
    /\ ret.value.t = "string"
    /\ \A d \in DigitStrings :
         /\ \A type \in GidTypes : arg = Gid(type, d) => ret.value.s = d
         /\ arg.s = SingleSlashPrefix \o d => ret.value.s = d
         /\ arg.s = d => ret.value = arg
    /\ (\A i \in 1..Len(arg.s) : arg.s[i] \notin DigitChars) => ret.value = arg
    /\ (/\ arg.s # <<>>
        /\ arg.s[Len(arg.s)] \notin DigitChars
        /\ ~Contains(arg.s, GidScheme)) => ret.value = arg

C14_Witness ==
  /\ arg = Str(SingleSlashPrefix \o <<"1", "2">>)
  /\ ret = Returned(Str(<<"1", "2">>))

\* ------------------------------------------------ generateDimensionData
\* Largest number of records handed to generateDimensionData.
MaxRecords == 2

LowerCaseLetters ==
  <<"a", "b", "c", "d", "e", "f", "g", "h", "i", "j", "k", "l", "m",
    "n", "o", "p", "q", "r", "s", "t", "u", "v", "w", "x", "y", "z">>

UpperCaseLetters ==
  <<"A", "B", "C", "D", "E", "F", "G", "H", "I", "J", "K", "L", "M",
    "N", "O", "P", "Q", "R", "S", "T", "U", "V", "W", "X", "Y", "Z">>

\* String.prototype.toLowerCase, one character.
LowerChar(c) ==
  IF \E i \in 1..Len(UpperCaseLetters) : UpperCaseLetters[i] = c
  THEN LowerCaseLetters[CHOOSE i \in 1..Len(UpperCaseLetters) : UpperCaseLetters[i] = c]
  ELSE c

\* String.prototype.toLowerCase
ToLowerCase(s) == [i \in 1..Len(s) |-> LowerChar(s[i])]

\* String.prototype.includes
Includes(s, p) == p = <<>> \/ \E i \in 1..Len(s) : OccursAt(p, s, i)

\* A category of a chart: the name it is shown under and the literal its
\* filter compares the attribute with.
Category(name, literal) == [name |-> name, literal |-> literal]

petAgeCategories ==
  <<Category("1-6", <<"1", "-", "6">>),
    Category("7-12", <<"7", "-", "1", "2">>),
    Category("13-20", <<"1", "3", "-", "2", "0">>)>>

drugUsageCategories ==
  <<Category("Allergies", <<"a", "l", "l", "e", "r", "g", "i", "e", "s">>),
    Category("Gut Health and Immune Support", <<"G", "u", "t", " ", "H", "e", "a", "l", "t", "h", " ", "a", "n",
                 "d", " ", "I", "m", "m", "u", "n", "e", " ", "S", "u", "p", "p",
                 "o", "r", "t">>),
    Category("Hip and Joint Health", <<"H", "i", "p", " ", "a", "n", "d", " ", "J", "o", "i", "n", "t",
                 " ", "H", "e", "a", "l", "t", "h">>),
    Category("Longevity", <<"L", "o", "n", "g", "e", "v", "i", "t", "y">>),
    Category("Anxiety", <<"A", "n", "x", "i", "e", "t", "y">>),
    Category("Skin or Paw Irritation", <<"S", "k", "i", "n", " ", "o", "r", " ", "P", "a", "w", " ", "I",
                 "r", "r", "i", "t", "a", "t", "i", "o", "n">>)>>

petWeightCategories ==
  <<Category("Under 20lbs", <<"u", "n", "d", "e", "r", " ", "2", "0", "l", "b", "s">>),
    Category("20-50lbs", <<"2", "0", "-", "5", "0", "l", "b", "s">>),
    Category("50+lbs", <<"5", "0", "+", "l", "b", "s">>)>>

petSpeciesCategories ==
  <<Category("Dog", <<"D", "o", "g">>),
    Category("Cat", <<"C", "a", "t">>),
    Category("Small Animal", <<"s", "m", "a", "l", "l", " ", "a", "n", "i", "m", "a", "l">>)>>

stressLevelCategories ==
  <<Category("Low", <<"l", "o", "w", " ", "d", "i", "s", "c", "o", "m", "f", "o", "r",
                 "t", " ", "o", "r", " ", "s", "t", "r", "e", "s", "s">>),
    Category("2", <<"2">>),
    Category("Moderate", <<"m", "o", "d", "e", "r", "a", "t", "e", " ", "d", "i", "s", "c",
                 "o", "m", "f", "o", "r", "t", " ", "o", "r", " ", "s", "t", "r",
                 "e", "s", "s">>),
    Category("4", <<"4">>),
    Category("Severe", <<"s", "e", "v", "e", "r", "e", " ", "d", "i", "s", "c", "o", "m",
                 "f", "o", "r", "t", " ", "o", "r", " ", "s", "t", "r", "e", "s",
                 "s">>)>>

\* The categories of an attribute, in the order of the array literal.
Categories(f) ==
  CASE f = "pet_age" -> petAgeCategories
    [] f = "drug_usage" -> drugUsageCategories
    [] f = "pet_weight" -> petWeightCategories
    [] f = "pet_type" -> petSpeciesCategories
    [] f = "stress_level" -> stressLevelCategories

\* Mutant: every drug-usage category matched the way 'Allergies' is, by
\* case-insensitive containment.
MatchesByContainment(f, cat, c) ==
  IF f = "drug_usage"
  THEN Truthy(c[f]) /\ Includes(ToLowerCase(c[f].s), ToLowerCase(cat.literal))
  ELSE c[f].t = "string" /\ c[f].s = cat.literal

\* Mutant: 'Allergies' matched the way the other categories are, by
\* equality with the literal.
MatchesByEquality(f, cat, c) == c[f].t = "string" /\ c[f].s = cat.literal

\* The predicate of the filter that counts category cat of attribute f:
\* c.drug_usage && c.drug_usage.toLowerCase().includes('allergies') for
\* 'Allergies', c[f] === literal for every other category.
Matches(f, cat, c) ==
  IF f = "drug_usage" /\ cat.name = "Allergies"
  THEN Truthy(c[f]) /\ Includes(ToLowerCase(c[f].s), cat.literal)
  ELSE c[f].t = "string" /\ c[f].s = cat.literal

\* customers.filter(<predicate of cat>).length
Count(f, cat, customers) ==
  Len(SelectSeq(customers, LAMBDA c : Matches(f, cat, c)))

\* The array literal of attribute f: one { name, customers } per category.
CategoryData(f, customers) ==
  [k \in 1..Len(Categories(f)) |->
     [name |-> Categories(f)[k].name,
      customers |-> Count(f, Categories(f)[k], customers)]]

\* Mutant: no category is filtered out.
FilterNothing(data) == data

\* .filter(d => d.customers > 0)
FilterPositive(data) == SelectSeq(data, LAMBDA d : d.customers > 0)

\* generateDimensionData(customers)
generateDimensionData(customers) ==
  IF Len(customers) = 0 THEN [f \in FieldSet |-> <<>>]
  ELSE [pet_age |-> CategoryData("pet_age", customers),
        drug_usage |-> FilterPositive(CategoryData("drug_usage", customers)),
        pet_weight |-> CategoryData("pet_weight", customers),
        pet_type |-> CategoryData("pet_type", customers),
        stress_level |-> FilterPositive(CategoryData("stress_level", customers))]

\* The attribute values of the records under test: category literals,
\* near misses, empty strings and null.
petAgeValues ==
  <<Str(<<"1", "-", "6">>),
    Str(<<"7", "-", "1", "2">>),
    Str(<<"1", "3", "-", "2", "0">>),
    Str(<<"2", "1", "+">>),
    Null>>

drugUsageValues ==
  <<Str(<<"a", "l", "l", "e", "r", "g", "i", "e", "s">>),
    Str(<<"S", "e", "a", "s", "o", "n", "a", "l", " ", "A", "L", "L", "E",
          "R", "G", "I", "E", "S", " ", "f", "l", "a", "r", "e">>),
    Str(<<"a", "l", "l", "e", "r", "g", "y">>),
    Str(<<"L", "o", "n", "g", "e", "v", "i", "t", "y">>),
    Str(<<"l", "o", "n", "g", "e", "v", "i", "t", "y">>),
    Str(<<"A", "n", "x", "i", "e", "t", "y", " ", "a", "n", "d", " ", "a",
          "l", "l", "e", "r", "g", "i", "e", "s">>),
    Str(<<"G", "u", "t", " ", "H", "e", "a", "l", "t", "h", " ", "a", "n",
          "d", " ", "I", "m", "m", "u", "n", "e", " ", "S", "u", "p", "p",
          "o", "r", "t">>),
    Null>>

petWeightValues ==
  <<Str(<<"u", "n", "d", "e", "r", " ", "2", "0", "l", "b", "s">>),
    Str(<<"U", "n", "d", "e", "r", " ", "2", "0", "l", "b", "s">>),
    Str(<<"5", "0", "+", "l", "b", "s">>),
    Str(<<>>)>>

petTypeValues ==
  <<Str(<<"D", "o", "g">>),
    Str(<<"d", "o", "g">>),
    Str(<<"C", "a", "t">>),
    Str(<<"s", "m", "a", "l", "l", " ", "a", "n", "i", "m", "a", "l">>),
    Null>>

stressLevelValues ==
  <<Str(<<"l", "o", "w", " ", "d", "i", "s", "c", "o", "m", "f", "o", "r",
          "t", " ", "o", "r", " ", "s", "t", "r", "e", "s", "s">>),
    Str(<<"2">>),
    Str(<<"3">>),
    Str(<<"s", "e", "v", "e", "r", "e", " ", "d", "i", "s", "c", "o", "m",
          "f", "o", "r", "t", " ", "o", "r", " ", "s", "t", "r", "e", "s",
          "s">>),
    Str(<<>>)>>

\* Number of records under test.
SampleCount == 12

\* Record i under test: attribute f holds value number (i mod n) + 1 of the
\* n values of f.
SampleRecord(i) ==
  [pet_age |-> petAgeValues[(i % Len(petAgeValues)) + 1],
   drug_usage |-> drugUsageValues[(i % Len(drugUsageValues)) + 1],
   pet_weight |-> petWeightValues[(i % Len(petWeightValues)) + 1],
   pet_type |-> petTypeValues[(i % Len(petTypeValues)) + 1],
   stress_level |-> stressLevelValues[(i % Len(stressLevelValues)) + 1]]

SampleRecords == {SampleRecord(i) : i \in 0..(SampleCount - 1)}

RecordLists == UNION {[1..k -> SampleRecords] : k \in 0..MaxRecords}

\* generateDimensionData(arg) is about to be called.
InitAggregate ==
  /\ TableIdle
  /\ RunsIdle
  /\ FormIdle
  /\ SubmitIdle
  /\ CollectorIdle
  /\ ScorerIdle
  /\ arg \in RecordLists
  /\ ret = Pending

\* The call generateDimensionData(arg) runs.
CallGenerateDimensionData ==
  /\ ret = Pending
  /\ ret' = Returned(generateDimensionData(arg))
  /\ UNCHANGED <<outsidePure, arg>>

NextAggregate == CallGenerateDimensionData

SpecAggregate == InitAggregate /\ [][NextAggregate]_vars

\* The sum of the counts of a chart.
RECURSIVE SumCounts(_)
SumCounts(data) ==
  IF data = <<>> THEN 0 ELSE Head(data).customers + SumCounts(Tail(data))

\* The categories of attribute f whose filter accepts record c.
CategoriesOf(f, c) ==
  {k \in 1..Len(Categories(f)) : Matches(f, Categories(f)[k], c)}

\* C15: for every record list and each of the five attributes, every record
\* is counted in at most one category of the attribute and a record whose
\* value matches no category is counted in none: the counts of the
\* attribute add up to the number of records that match a category, which
\* never exceeds the number of records.
C15_AtMostOneCategory ==
  ret.t = "returned" =>
    \A f \in FieldSet :
      /\ \A i \in 1..Len(arg) : Cardinality(CategoriesOf(f, arg[i])) <= 1
      /\ SumCounts(ret.value[f])
           = Cardinality({i \in 1..Len(arg) : CategoriesOf(f, arg[i]) # {}})
      /\ SumCounts(ret.value[f]) <= Len(arg)

C15_Witness ==
  /\ ret.t = "returned"
  /\ Len(arg) = 2
  /\ arg[1].drug_usage.t = "string"
  /\ Includes(arg[1].drug_usage.s, <<"A", "n", "x", "i", "e", "t", "y">>)
  /\ arg[2].drug_usage.t = "null"
  /\ SumCounts(ret.value.drug_usage) = 1
  /\ SumCounts(ret.value.pet_weight) = 0

\* The names of a chart, in order.
Names(data) == [k \in 1..Len(data) |-> data[k].name]

\* The number of records of customers at which predicate P holds.
CountWhere(customers, P(_)) == Cardinality({i \in 1..Len(customers) : P(customers[i])})

\* Chart data of attribute f holds exactly the categories of f that some
\* record matches, in the order of the categories.
OnlyMatchedCategories(f, data, customers) ==
  /\ \A k \in 1..Len(data) : data[k].customers > 0
  /\ Names(data) =
       Names(SelectSeq(Categories(f),
                       LAMBDA cat : \E i \in 1..Len(customers) :
                                      Matches(f, cat, customers[i])))

\* Chart data of age, weight and species holds the three fixed categories.
AllFixedCategories(value) ==
  /\ Names(value.pet_age) = <<"1-6", "7-12", "13-20">>
  /\ Names(value.pet_weight) = <<"Under 20lbs", "20-50lbs", "50+lbs">>
  /\ Names(value.pet_type) = <<"Dog", "Cat", "Small Animal">>

\* C16 as stated: for every record list, the output for age, weight and
\* species contains all three fixed categories in fixed order, also with a
\* count of zero, and the output for drug usage and stress level contains
\* exactly the categories with a count greater than zero.
C16_FixedCategoriesAlways ==
  ret.t = "returned" =>
    /\ AllFixedCategories(ret.value)
    /\ OnlyMatchedCategories("drug_usage", ret.value.drug_usage, arg)
    /\ OnlyMatchedCategories("stress_level", ret.value.stress_level, arg)

\* C16 amended: the same for every non-empty record list; for the empty
\* list all five outputs are empty.
C16_FixedCategoriesUnlessEmpty ==
  ret.t = "returned" =>
    /\ Len(arg) > 0 => AllFixedCategories(ret.value)
    /\ Len(arg) = 0 => \A f \in FieldSet : ret.value[f] = <<>>
    /\ OnlyMatchedCategories("drug_usage", ret.value.drug_usage, arg)
    /\ OnlyMatchedCategories("stress_level", ret.value.stress_level, arg)

C16_Witness ==
  /\ ret.t = "returned"
  /\ Len(arg) = 1
  /\ SumCounts(ret.value.pet_age) = 0
  /\ Len(ret.value.pet_age) = 3
  /\ Len(ret.value.drug_usage) = 1
  /\ Len(ret.value.stress_level) = 0

\* s contains "allergies" in any mix of upper and lower case.
ContainsAllergies(s) ==
  LET lower == <<"a", "l", "l", "e", "r", "g", "i", "e", "s">>
      upper == <<"A", "L", "L", "E", "R", "G", "I", "E", "S">>
  IN  \E j \in 0..(Len(s) - Len(lower)) :
        \A k \in 1..Len(lower) : s[j + k] \in {lower[k], upper[k]}

\* The count a drug-usage chart shows under a name, 0 when the name is
\* not in the chart.
ShownCount(data, name) ==
  IF \E k \in 1..Len(data) : data[k].name = name
  THEN data[CHOOSE k \in 1..Len(data) : data[k].name = name].customers
  ELSE 0

\* C17: a record is counted under "Allergies" if and only if its drug_usage
\* contains "allergies" as a substring in any letter case; every other
\* drug-usage category counts exactly the records whose drug_usage equals
\* its literal.
C17_DrugUsageMatching ==
  ret.t = "returned" =>
    /\ ShownCount(ret.value.drug_usage, "Allergies")
         = Cardinality({i \in 1..Len(arg) :
                          /\ arg[i].drug_usage.t = "string"
                          /\ ContainsAllergies(arg[i].drug_usage.s)})
    /\ \A k \in 2..Len(drugUsageCategories) :
         ShownCount(ret.value.drug_usage, drugUsageCategories[k].name)
           = Cardinality({i \in 1..Len(arg) :
                            /\ arg[i].drug_usage.t = "string"
                            /\ arg[i].drug_usage.s = drugUsageCategories[k].literal})

C17_Witness ==
  /\ ret.t = "returned"
  /\ Len(arg) = 2
  /\ arg[1].drug_usage = drugUsageValues[2]
  /\ arg[2].drug_usage = drugUsageValues[3]
  /\ ret.value.drug_usage = <<[name |-> "Allergies", customers |-> 1]>>

\* ------------------------------------------------- profile submission
\* The two actions that answer a profile submission: the app-proxy route,
\* which sends the metafieldsSet mutation, and the earlier action that
\* skips the Admin API call.
Routes == {"proxy", "stub"}

Shop == Str(<<"s">>)

\* The customer the session token is issued to, and another customer.
TokenSubject == Gid(CustomerType, <<"1">>)

OtherCustomer == Gid(CustomerType, <<"2">>)

\* Session tokens: none, and every combination of a missing, empty or
\* present dest and sub.
SessionTokens ==
  {Null} \cup {[t |-> "object", dest |-> d, sub |-> s] :
                 d \in {Undefined, Shop},
                 s \in {Undefined, Str(<<>>), TokenSubject}}

\* Request bodies: the five attributes as the form sends them, and
\* properties the action does not ask for.
Bodies ==
  {[f \in FieldSet |-> attrs[f]] @@ [ownerId |-> o, namespace |-> n] :
     attrs \in [FieldSet -> {A, Str(<<>>)}],
     o \in {Undefined, OtherCustomer},
     n \in {Undefined, B}}

\* !sessionToken?.dest || !sessionToken?.sub
InvalidToken(tok) ==
  IF tok.t = "null" THEN TRUE
  ELSE ~Truthy(tok.dest) \/ ~Truthy(tok.sub)

\* One entry of metafieldsInput.
MetafieldInput(ownerId, key, value) ==
  [ownerId |-> ownerId, namespace |-> "variables", key |-> key,
   value |-> value, type |-> "single_line_text_field"]

\* Mutant: the owner taken from the request body when it names one.
metafieldsInputOwnerFromBody(customerGID, requestBody) ==
  [i \in 1..Len(Fields) |->
     MetafieldInput(Or(requestBody.ownerId, customerGID), Fields[i],
                    requestBody[Fields[i]])]

\* const metafieldsInput = [ ... ] of the app-proxy route.
metafieldsInput(customerGID, requestBody) ==
  [i \in 1..Len(Fields) |->
     MetafieldInput(customerGID, Fields[i], requestBody[Fields[i]])]

\* JSON bodies of the Responses the actions return.  A property whose
\* value is undefined is left out by JSON.stringify and reads back as
\* undefined.
JsonSuccess == [success |-> Bool(TRUE), error |-> Undefined]

JsonError(message) == [success |-> Undefined, error |-> message]

HttpResponse(code, json) == [t |-> "response", status |-> code, json |-> json]

InvalidSessionToken == Msg("Invalid session token")

\* errors.map(e => e.message).join(", "): one string made of the messages.
Joined(messages) == [t |-> "joined", parts |-> messages]

\* How the Admin API can answer the mutation: all five metafields written
\* (userErrors empty), field-level userErrors, a payload with top-level
\* errors and no data, or a fault thrown by the call.
Written == [t |-> "written", written |-> Len(Fields), userErrors |-> <<>>]

UserErrors(messages) == [t |-> "userErrors", userErrors |-> messages]

QueryErrors == [t |-> "queryErrors"]

Fault(error) == [t |-> "fault", error |-> error]

UserErrorMessages == {Msg("Value is invalid"), Msg("Owner does not exist")}

UserErrorLists == UNION {[1..k -> UserErrorMessages] : k \in 1..2}

\* The values a failing call can throw: an Error, or a value without a
\* message property.
Faults == {NetworkError, ThrownResponse}

\* A submission has arrived at one of the actions.
InitSubmit ==
  /\ TableIdle
  /\ RunsIdle
  /\ FormIdle
  /\ CollectorIdle
  /\ ScorerIdle
  /\ PureIdle
  /\ route \in Routes
  /\ sessionToken \in SessionTokens
  /\ body \in Bodies
  /\ routePc = "start"
  /\ adminCalls = <<>>
  /\ mutationResult = Pending
  /\ httpResponse = Pending

\* if (!sessionToken?.dest || !sessionToken?.sub) return 401
RejectToken ==
  /\ routePc = "start"
  /\ InvalidToken(sessionToken)
  /\ httpResponse' = HttpResponse(401, JsonError(InvalidSessionToken))
  /\ routePc' = "done"
  /\ UNCHANGED <<outsideSubmit, route, sessionToken, body, adminCalls,
                 mutationResult>>

\* The stub action: the Admin API call is skipped, success is returned.
StubRespond ==
  /\ routePc = "start"
  /\ route = "stub"
  /\ ~InvalidToken(sessionToken)
  /\ httpResponse' = HttpResponse(200, JsonSuccess)
  /\ routePc' = "done"
  /\ UNCHANGED <<outsideSubmit, route, sessionToken, body, adminCalls,
                 mutationResult>>

\* unauthenticated.admin(shop) throws: the catch block answers 500.
AdminContextFail ==
  /\ routePc = "start"
  /\ route = "proxy"
  /\ ~InvalidToken(sessionToken)
  /\ \E err \in Faults :
       httpResponse' = HttpResponse(500, JsonError(err.message))
  /\ routePc' = "done"
  /\ UNCHANGED <<outsideSubmit, route, sessionToken, body, adminCalls,
                 mutationResult>>

\* admin.graphql(mutation, { variables: { metafields: metafieldsInput } })
SendMutation ==
  /\ routePc = "start"
  /\ route = "proxy"
  /\ ~InvalidToken(sessionToken)
  /\ adminCalls' = Append(adminCalls,
                          [metafields |-> metafieldsInput(sessionToken.sub, body)])
  /\ routePc' = "awaiting"
  /\ UNCHANGED <<outsideSubmit, route, sessionToken, body, mutationResult,
                 httpResponse>>

\* What the action does with the Admin API's answer: a thrown fault and
\* non-empty userErrors end in the catch block (500), everything else in
\* the 200 success Response.  For a payload without data,
\* result.data?.metafieldsSet?.userErrors is undefined.
RespondTo(answer) ==
  CASE answer.t = "fault" -> HttpResponse(500, JsonError(answer.error.message))
    [] answer.t = "userErrors" ->
         HttpResponse(500, JsonError(Joined(answer.userErrors)))
    [] OTHER -> HttpResponse(200, JsonSuccess)

\* The Admin API reports all five metafields written.
MutationWritten ==
  /\ routePc = "awaiting"
  /\ mutationResult' = Written
  /\ httpResponse' = RespondTo(Written)
  /\ routePc' = "done"
  /\ UNCHANGED <<outsideSubmit, route, sessionToken, body, adminCalls>>

\* The Admin API reports field-level userErrors.
MutationUserErrors ==
  /\ routePc = "awaiting"
  /\ \E messages \in UserErrorLists :
       /\ mutationResult' = UserErrors(messages)
       /\ httpResponse' = RespondTo(UserErrors(messages))
  /\ routePc' = "done"
  /\ UNCHANGED <<outsideSubmit, route, sessionToken, body, adminCalls>>

\* The Admin API answers with top-level errors and no data.
MutationQueryErrors ==
  /\ routePc = "awaiting"
  /\ mutationResult' = QueryErrors
  /\ httpResponse' = RespondTo(QueryErrors)
  /\ routePc' = "done"
  /\ UNCHANGED <<outsideSubmit, route, sessionToken, body, adminCalls>>

\* admin.graphql or response.json() throws.
MutationFault ==
  /\ routePc = "awaiting"
  /\ \E err \in Faults :
       /\ mutationResult' = Fault(err)
       /\ httpResponse' = RespondTo(Fault(err))
  /\ routePc' = "done"
  /\ UNCHANGED <<outsideSubmit, route, sessionToken, body, adminCalls>>

NextSubmit ==
  \/ RejectToken
  \/ StubRespond
  \/ AdminContextFail
  \/ SendMutation
  \/ MutationWritten
  \/ MutationUserErrors
  \/ MutationQueryErrors
  \/ MutationFault

SpecSubmit == InitSubmit /\ [][NextSubmit]_vars

\* The action has answered.
Answered == httpResponse.t = "response"

\* C18: the submission action returns success (HTTP 200, success: true)
\* only when the Admin API reported all five attributes written; when the
\* write reports an error (userErrors, a top-level query error, a thrown
\* fault) the caller gets a non-success response that carries one error
\* message, never a success.
C18_SuccessOnlyWhenWritten ==
  Answered =>
    /\ (httpResponse.status = 200 \/ httpResponse.json.success.t = "boolean") =>
         (mutationResult.t = "written" /\ mutationResult.written = Len(Fields))
    /\ mutationResult.t \in {"userErrors", "queryErrors", "fault"} =>
         /\ httpResponse.status # 200
         /\ httpResponse.json.success.t = "undefined"
         /\ httpResponse.json.error.t \in {"message", "joined"}

\* The token carries a non-empty dest and a non-empty sub.
HasDestAndSub(tok) ==
  /\ tok.t = "object"
  /\ tok.dest.t = "string" /\ tok.dest.s # <<>>
  /\ tok.sub.t = "string" /\ tok.sub.s # <<>>

\* C19: a metafield write is issued only for a request whose session token
\* carries both dest and sub; without them the action answers 401 and
\* makes no Admin API call.  All five metafields of a write have ownerId
\* equal to the token's subject and namespace "variables", whatever the
\* request body contains.
C19_OwnProfileOnly ==
  /\ \A i \in 1..Len(adminCalls) :
       /\ HasDestAndSub(sessionToken)
       /\ Len(adminCalls[i].metafields) = 5
       /\ {adminCalls[i].metafields[k].key : k \in 1..5} = FieldSet
       /\ \A k \in 1..5 :
            /\ adminCalls[i].metafields[k].ownerId = sessionToken.sub
            /\ adminCalls[i].metafields[k].namespace = "variables"
            /\ adminCalls[i].metafields[k].value
                 = body[adminCalls[i].metafields[k].key]
  /\ (routePc = "done" /\ ~HasDestAndSub(sessionToken)) =>
       /\ httpResponse.status = 401
       /\ adminCalls = <<>>

C19_Witness ==
  /\ routePc = "done"
  /\ Len(adminCalls) = 1
  /\ body.ownerId = OtherCustomer
  /\ body.namespace = B
  /\ httpResponse.status = 200
  /\ adminCalls[1].metafields[1].ownerId = TokenSubject

\* ---------------------------------------------------------- profile form
\* Number of successful submissions after which the model stops sending
\* save requests.
MaxSubmissions == 3

\* The metafields the extension reads: the five attributes and
\* first_submission.
MetafieldKeys == FieldSet \cup {"first_submission"}

\* The options of a Select, reduced to the placeholder '' and one value.
FieldOptions == {Str(<<>>), A}

TrueText == Str(<<"t", "r", "u", "e">>)

EmptyFields == [f \in FieldSet |-> Str(<<>>)]

StatusError(message) == [t |-> "status", type |-> "error", message |-> message]

StatusSuccess(message) == [t |-> "status", type |-> "success", message |-> message]

\* `Profile saved successfully! Use code: *${discountCode}* to get 20% off!`
DiscountMessage == Msg("Profile saved successfully! Use code: discount_code")

UpdatedMessage == Msg("Profile updated successfully!")

\* data.<key>?.value of the customer query: undefined for a metafield the
\* customer does not have.
LoadedValue(key) ==
  IF metafields[key].t = "null" THEN Undefined ELSE metafields[key]

\* validateFields(): the messages of the empty fields, in the order of the
\* five tests.
RequiredMessages ==
  <<[field |-> "pet_age", message |-> Msg("Pet Age is required")],
    [field |-> "drug_usage", message |-> Msg("Drug Usage is required")],
    [field |-> "pet_type", message |-> Msg("Pet Species is required")],
    [field |-> "stress_level", message |-> Msg("Stress Level is required")],
    [field |-> "pet_weight", message |-> Msg("Pet Weight is required")]>>

\* Mutant: the test of pet_weight is left out.
validateFieldsWithoutWeight(values) ==
  LET failed == SelectSeq(RequiredMessages,
                  LAMBDA r : r.field # "pet_weight" /\ ~Truthy(values[r.field]))
  IN  [i \in 1..Len(failed) |-> failed[i].message]


validateFields(values) ==
  LET failed == SelectSeq(RequiredMessages, LAMBDA r : ~Truthy(values[r.field]))
  IN  [i \in 1..Len(failed) |-> failed[i].message]

\* The extension is mounted in the account page of a customer who has no
\* profile metafields; its effect load() has not finished.
InitForm ==
  /\ TableIdle
  /\ RunsIdle
  /\ CollectorIdle
  /\ ScorerIdle
  /\ PureIdle
  /\ SubmitIdle
  /\ metafields = [k \in MetafieldKeys |-> Null]
  /\ token = Null
  /\ fields = EmptyFields
  /\ loading = TRUE
  /\ status = Null
  /\ isFirstSubmission = FALSE
  /\ saving = FALSE
  /\ inFlight = Pending
  /\ shown = <<>>

\* load() finds the customer.
LoadOk ==
  /\ loading
  /\ token' = A
  /\ isFirstSubmission' =
       ~(LoadedValue("first_submission").t = "string"
         /\ LoadedValue("first_submission") = TrueText)
  /\ fields' = [f \in FieldSet |-> Or(LoadedValue(f), Str(<<>>))]
  /\ loading' = FALSE
  /\ UNCHANGED <<outsideForm, metafields, status, saving, inFlight, shown>>

\* load() throws, before or after the token was stored.
LoadFail ==
  /\ loading
  /\ token' \in {Null, A}
  /\ status' = StatusError(Msg("Customer not found"))
  /\ loading' = FALSE
  /\ UNCHANGED <<outsideForm, metafields, fields, isFirstSubmission, saving,
                 inFlight, shown>>

\* handleChange(key, value)
HandleChange ==
  /\ ~loading
  /\ \E key \in FieldSet, value \in FieldOptions :
       fields' = [fields EXCEPT ![key] = value]
  /\ status' = Null
  /\ UNCHANGED <<outsideForm, metafields, token, loading, isFirstSubmission,
                 saving, inFlight, shown>>

\* handleSubmit() with validation errors: the status shows them, nothing
\* is sent.
SubmitInvalid ==
  /\ ~loading
  /\ ~saving
  /\ validateFields(fields) # <<>>
  /\ status' = StatusError(Joined(validateFields(fields)))
  /\ UNCHANGED <<outsideForm, metafields, token, fields, loading,
                 isFirstSubmission, saving, inFlight, shown>>

\* handleSubmit() up to its await: the save request is sent with the
\* fields and isFirstSubmission of this render.
SubmitValid ==
  /\ ~loading
  /\ ~saving
  /\ Len(shown) < MaxSubmissions
  /\ validateFields(fields) = <<>>
  /\ status' = Null
  /\ saving' = TRUE
  /\ inFlight' = [t |-> "request", token |-> token, fields |-> fields,
                  isFirstSubmission |-> isFirstSubmission]
  /\ UNCHANGED <<outsideForm, metafields, token, fields, loading,
                 isFirstSubmission, shown>>

\* What a successful save writes: the five attributes of the request, as
\* metafieldsInput of the submission action lists them.  An answer of 200
\* without a write (written = FALSE) leaves the metafields as they are.
SavedMetafields(request, written) ==
  IF written
  THEN [k \in MetafieldKeys |->
          IF k \in FieldSet THEN request.fields[k] ELSE metafields[k]]
  ELSE metafields

\* The save request is answered with response.ok, which takes a request
\* that carries a token: handleSubmit shows the discount code when
\* isFirstSubmission was set, else the update message.
SaveOk ==
  /\ saving
  /\ inFlight.t = "request"
  /\ inFlight.token.t = "string"
  /\ \E written \in BOOLEAN :
       metafields' = SavedMetafields(inFlight, written)
  /\ status' = IF inFlight.isFirstSubmission THEN StatusSuccess(DiscountMessage)
               ELSE StatusSuccess(UpdatedMessage)
  /\ isFirstSubmission' = IF inFlight.isFirstSubmission THEN FALSE
                          ELSE isFirstSubmission
  /\ shown' = Append(shown, IF inFlight.isFirstSubmission THEN "discount"
                            ELSE "updated")
  /\ saving' = FALSE
  /\ inFlight' = Pending
  /\ UNCHANGED <<outsideForm, token, fields, loading>>

\* Mutant: setSaving(false) sits at the end of the try block instead of in
\* finally, so that a failed request leaves saving set.
SaveFailKeepsSaving ==
  /\ saving
  /\ inFlight.t = "request"
  /\ status' = StatusError(Msg("Failed to save data"))
  /\ inFlight' = Pending
  /\ UNCHANGED <<outsideForm, metafields, token, fields, loading,
                 isFirstSubmission, shown, saving>>


\* The save request fails (fetch throws or !response.ok).
SaveFail ==
  /\ saving
  /\ inFlight.t = "request"
  /\ status' = StatusError(Msg("Failed to save data"))
  /\ saving' = FALSE
  /\ inFlight' = Pending
  /\ UNCHANGED <<outsideForm, metafields, token, fields, loading,
                 isFirstSubmission, shown>>

\* The page is loaded again while no save is awaited: the component state
\* starts over, the customer's metafields stay.
Reload ==
  /\ ~saving
  /\ ~loading
  /\ token' = Null
  /\ fields' = EmptyFields
  /\ loading' = TRUE
  /\ status' = Null
  /\ isFirstSubmission' = FALSE
  /\ UNCHANGED <<outsideForm, metafields, saving, inFlight, shown>>

NextForm ==
  \/ LoadOk
  \/ LoadFail
  \/ HandleChange
  \/ SubmitInvalid
  \/ SubmitValid
  \/ SaveOk
  \/ SaveFail
  \/ Reload

SpecForm == InitForm /\ [][NextForm]_vars

\* C20: over any sequence of loads and submissions of one customer, the
\* first-time discount code is shown on the first successful submission
\* and on no later one, also after the form is reloaded.
C20_DiscountOnlyOnce ==
  \A i \in 1..Len(shown) : (shown[i] = "discount") <=> (i = 1)

\* The messages of the fields that are empty in values, in the order of
\* the form's checks.
MissingFields(values) ==
  SelectSeq(RequiredMessages, LAMBDA r : values[r.field] = Str(<<>>))

\* C27: while any of the five fields is empty (and the Save button can be
\* pressed), no step issues a save request or sets saving, and a status set
\* by a step is the error status that lists every missing field; a save
\* request is issued only when all five fields are non-empty, and carries
\* them.
C27_FormValidationGate ==
  [][/\ (~loading /\ ~saving /\ MissingFields(fields) # <<>>) =>
          /\ inFlight' = inFlight
          /\ saving' = FALSE
          /\ status'.t = "status" =>
               /\ status'.type = "error"
               /\ status'.message.t = "joined"
               /\ status'.message.parts =
                    [i \in 1..Len(MissingFields(fields)) |->
                       MissingFields(fields)[i].message]
     /\ (inFlight.t # "request" /\ inFlight'.t = "request") =>
          /\ MissingFields(fields) = <<>>
          /\ \A f \in FieldSet : inFlight'.fields[f] = fields[f]
          /\ saving'
    ]_vars

\* After a successful submission a field was emptied and Save pressed: the
\* status lists the missing fields and nothing is being saved.
C27_Witness ==
  /\ Len(shown) >= 1
  /\ ~saving
  /\ inFlight = Pending
  /\ status.t = "status"
  /\ status.type = "error"
  /\ status.message.t = "joined"
  /\ Len(status.message.parts) >= 2

\* The form when every save request that was sent is eventually answered
\* or fails.
SpecFormFair == SpecForm /\ WF_vars(SaveOk \/ SaveFail)

\* C28: saving is true exactly while a save request is in flight; a request
\* is started only while none is in flight, with saving set in the same
\* step; when the request resolves, with success or failure, saving is
\* cleared; and saving always returns to false.
C28_SavingFlag ==
  /\ [](saving <=> inFlight.t = "request")
  /\ [][/\ (inFlight'.t = "request" /\ inFlight.t # "request") =>
             (~saving /\ saving')
        /\ (inFlight.t = "request" /\ inFlight' # inFlight) =>
             (inFlight'.t # "request" /\ ~saving')
       ]_vars
  /\ (saving ~> ~saving)

\* A further save request is in flight after an earlier one succeeded.
C28_Witness ==
  /\ saving
  /\ inFlight.t = "request"
  /\ Len(shown) >= 1
  /\ status = Null

\* C22 (as stated): the size of every page request equals
\* min(batchSize, maxCustomers - totalFetched), and no request is sent when
\* that value is <= 0.
C22_RequestSizing ==
  /\ pc = "await" =>
       /\ requests[Len(requests)].first =
            Min(batchSize, maxCustomers - totalFetched)
       /\ requests[Len(requests)].first > 0
  /\ pc = "done" /\ Min(batchSize, maxCustomers) <= 0 => requests = <<>>

\* C23: the page requests of a run never overlap (a request is sent only
\* when every earlier one has been answered); after a page is processed the
\* delay is taken iff hasNextPage is true and totalFetched < maxCustomers;
\* the delay changes nothing and leads back to the loop; and a request other
\* than the first is sent only after the loop was re-entered from the delay,
\* so exactly one delay separates two consecutive requests and none follows
\* the final page.
C23_SequentialPacing ==
  [][/\ requests' # requests =>
          /\ pc = "loop" /\ pc' = "await"
          /\ Len(requests) = Len(responses)
          /\ Len(requests') = Len(requests) + 1
     /\ pc = "await" /\ pc' # "done" =>
          /\ Len(responses') = Len(requests)
          /\ pc' \in {"delay", "loop"}
          /\ pc' = "delay" <=> (hasNextPage' /\ totalFetched' < maxCustomers)
     /\ pc = "delay" =>
          /\ pc' = "loop"
          /\ UNCHANGED <<locals, logs, result>>
     /\ pc' = "loop" /\ requests' # <<>>
          /\ hasNextPage' /\ totalFetched' < maxCustomers =>
          pc = "delay"
    ]_vars

\* A second page has been processed and the delay before a third request
\* is being taken.
C23_Witness ==
  /\ pc = "delay"
  /\ Len(responses) = 2
  /\ Len(requests) = 2

MaxRunCap == 2

MaxRunRequests == 3

Calls == {1, 2}

\* Mutant: the four variables are declared once, outside the function, so
\* that both calls use the same ones.
FrameShared(c) == 1

\* The four variables are declared with let inside the try block: each
\* call has its own.
Frame(c) == c

\* let allCustomers = []; let hasNextPage = true; let cursor = null;
\* let totalFetched = 0;
NewFrame ==
  [allCustomers |-> <<>>, hasNextPage |-> TRUE, cursor |-> Null,
   totalFetched |-> 0]

\* A well-formed page and a failed page request.
Page(edges, more, endCursor) ==
  [ok |-> TRUE, edges |-> edges, hasNextPage |-> more, endCursor |-> endCursor]

FailedPage(error) == [ok |-> FALSE, error |-> error]

\* The body of the loop after the response has been read.
LoopBody(frame, page) ==
  LET customers == MapEdges("fixedSegment", page.edges)
  IN [allCustomers |-> Concat(frame.allCustomers, customers),
      hasNextPage |-> page.hasNextPage,
      cursor |-> page.endCursor,
      totalFetched |-> AddFetched(frame.totalFetched, customers)]

\* What one call returns when nothing else runs, given the pages it is
\* sent in order; Pending while the pages sent do not finish the run.
RECURSIVE RunAloneFrom(_, _, _, _)
RunAloneFrom(cap, frame, pages, i) ==
  IF ~LoopCondition(frame.hasNextPage, frame.totalFetched, cap)
  THEN ReturnResult(frame.allCustomers, frame.hasNextPage,
                    frame.totalFetched, cap)
  ELSE IF i > Len(pages) THEN Pending
  ELSE IF ~pages[i].ok THEN CatchResult(pages[i].error, cap)
  ELSE RunAloneFrom(cap, LoopBody(frame, pages[i]), pages, i + 1)

RunAlone(cap, pages) == RunAloneFrom(cap, NewFrame, pages, 1)

\* Where a call stands: at a place of the function, or awaiting the answer
\* to the page request it sent.
At(place) == [at |-> place, request |-> Pending]

Awaiting(request) == [at |-> "await", request |-> request]

InitRuns ==
  /\ calls \in [Calls -> [maxCustomers : 0..MaxRunCap,
                          batchSize : {1, MaxBatch}]]
  /\ callPc = [c \in Calls |-> At("start")]
  /\ frames = [c \in Calls |-> NewFrame]
  /\ received = [c \in Calls |-> <<>>]
  /\ returned = [c \in Calls |-> Pending]
  /\ TableIdle
  /\ CollectorIdle
  /\ FormIdle
  /\ SubmitIdle
  /\ ScorerIdle
  /\ PureIdle

\* Call c enters the try block and declares its variables.
RunBegin(c) ==
  /\ callPc[c].at = "start"
  /\ frames' = [frames EXCEPT ![Frame(c)] = NewFrame]
  /\ callPc' = [callPc EXCEPT ![c] = At("loop")]
  /\ UNCHANGED <<calls, received, returned, outsideRuns>>

\* Call c finds the loop condition true and sends a page request.
RunRequest(c) ==
  /\ callPc[c].at = "loop"
  /\ LoopCondition(frames[Frame(c)].hasNextPage,
                   frames[Frame(c)].totalFetched, calls[c].maxCustomers)
  /\ Len(received[1]) + Len(received[2]) < MaxRunRequests
  /\ callPc' = [callPc EXCEPT ![c] = Awaiting(
       RequestVariables(calls[c].batchSize, frames[Frame(c)].cursor))]
  /\ UNCHANGED <<calls, frames, received, returned, outsideRuns>>

\* The request call c awaits is answered with a well-formed page; the body
\* of the loop runs up to the delay.
RunPage(c) ==
  /\ callPc[c].at = "await"
  /\ \E n \in 0..Min(calls[c].batchSize, MaxBatch), more \in BOOLEAN :
       LET after == callPc[c].request.after
           edges == [i \in 1..n |-> Node(Position(after) + i, BareNode)]
           page == Page(edges, more, EndCursor(after, n))
           frame == LoopBody(frames[Frame(c)], page)
       IN /\ frames' = [frames EXCEPT ![Frame(c)] = frame]
          /\ received' = [received EXCEPT ![c] = Append(@, page)]
          /\ callPc' = [callPc EXCEPT ![c] =
               IF LoopCondition(frame.hasNextPage, frame.totalFetched,
                                calls[c].maxCustomers)
               THEN At("delay") ELSE At("loop")]
  /\ UNCHANGED <<calls, returned, outsideRuns>>

\* The request call c awaits throws, carries errors or is malformed.
RunPageFail(c) ==
  /\ callPc[c].at = "await"
  /\ \E error \in Thrown("fixedSegment", "page") :
       /\ returned' = [returned EXCEPT ![c] =
            CatchResult(error, calls[c].maxCustomers)]
       /\ received' = [received EXCEPT ![c] = Append(@, FailedPage(error))]
  /\ callPc' = [callPc EXCEPT ![c] = At("done")]
  /\ UNCHANGED <<calls, frames, outsideRuns>>

\* The 100 ms timer of call c fires.
RunDelayElapsed(c) ==
  /\ callPc[c].at = "delay"
  /\ callPc' = [callPc EXCEPT ![c] = At("loop")]
  /\ UNCHANGED <<calls, frames, received, returned, outsideRuns>>

\* Call c finds the loop condition false and returns.
RunReturn(c) ==
  /\ callPc[c].at = "loop"
  /\ ~LoopCondition(frames[Frame(c)].hasNextPage,
                    frames[Frame(c)].totalFetched, calls[c].maxCustomers)
  /\ returned' = [returned EXCEPT ![c] =
       ReturnResult(frames[Frame(c)].allCustomers,
                    frames[Frame(c)].hasNextPage,
                    frames[Frame(c)].totalFetched, calls[c].maxCustomers)]
  /\ callPc' = [callPc EXCEPT ![c] = At("done")]
  /\ UNCHANGED <<calls, frames, received, outsideRuns>>

NextRuns ==
  \E c \in Calls :
    \/ RunBegin(c)
    \/ RunRequest(c)
    \/ RunPage(c)
    \/ RunPageFail(c)
    \/ RunDelayElapsed(c)
    \/ RunReturn(c)

SpecRuns == InitRuns /\ [][NextRuns]_vars

\* C21: whatever the interleaving of two runs, a run that has returned has
\* returned exactly what it returns when executed alone against the page
\* responses it was sent.
C21_RunIsolation ==
  \A c \in Calls :
    callPc[c].at = "done" =>
      returned[c] = RunAlone(calls[c].maxCustomers, received[c])

\* Both runs have returned records, and MaxRunRequests pages were sent to
\* the two of them in all.
C21_Witness ==
  /\ \A c \in Calls :
       /\ callPc[c].at = "done"
       /\ returned[c].error = Null
       /\ Len(returned[c].customers) > 0
  /\ Len(received[1]) + Len(received[2]) = MaxRunRequests


\* ------------------------------------------------------------ termination
\* The run of the collector under fair scheduling. The logs are kept for
\* the last MaxRequests requests only, so that a run of any length is a
\* behaviour of the specification.
InitTermination ==
  /\ Init
  /\ maxCustomers <= MaxRunCap
  /\ batchSize <= MaxBatch

\* The logs are full: they are emptied at the loop head, where no request
\* is awaited. No variable of the program changes.
ForgetLogs ==
  /\ pc = "loop"
  /\ Len(requests) = MaxRequests
  /\ requests' = <<>>
  /\ responses' = <<>>
  /\ served' = <<>>
  /\ UNCHANGED <<inputs, locals, segment, result, pc, lookups,
                 outsideCollector>>

NextTermination ==
  \/ Next
  \/ ForgetLogs

\* Every request that was sent is eventually answered (the proviso of the
\* termination statement); the timer fires; and the code between two awaits
\* runs.
SpecTermination ==
  /\ InitTermination
  /\ [][NextTermination]_vars
  /\ WF_vars(LookupFound \/ LookupNotFound \/ LookupFail)
  /\ WF_vars(PageSuccess \/ PageFail)
  /\ WF_vars(DelayElapsed)
  /\ WF_vars(BeginFixedSegment \/ BeginByName \/ IssuePageRequest \/ Return
             \/ ForgetLogs)

\* C25 (as stated): provided every page request eventually returns, every
\* run eventually returns a result, whatever the remote answers.
C25_Termination == <>(pc = "done")


\* ------------------------------------------------ customer-profiles table
\* const itemsPerPage = 50
itemsPerPage == 50

\* Largest number of customers the loader hands to the page.
MaxTableCustomers == 101

Dog == Str(<<"D", "o", "g">>)

\* Customer i of the loader data, as the fixed-segment collector builds it:
\* names and attributes are strings or null, varying with i.
TableCustomer(i) ==
  [id |-> Str(ToDigits(i)),
   firstName |-> IF i % 2 = 0 THEN Str(<<"A">>) ELSE Null,
   lastName |-> B,
   email |-> IF i % 3 = 0 THEN Null ELSE Str(<<"c">>),
   pet_type |-> CASE i % 3 = 0 -> Dog [] i % 3 = 1 -> Null [] OTHER -> Str(<<Space>>),
   stress_level |-> IF i % 2 = 0 THEN A ELSE Null,
   drug_usage |-> IF i % 5 = 0 THEN Null ELSE A,
   pet_age |-> IF i % 7 = 0 THEN Null ELSE A,
   pet_weight |-> IF i % 4 = 0 THEN Str(<<>>) ELSE A]

TableSizes == {0, 1, itemsPerPage, itemsPerPage + 1, MaxTableCustomers}

\* The initial values of the eight filter states.
NoFilters ==
  [queryValue |-> Str(<<>>), petTypeFilter |-> <<>>,
   stressLevelFilter |-> <<>>, hasPetType |-> FALSE, hasStressLevel |-> FALSE,
   hasDrugUsage |-> FALSE, hasPetAge |-> FALSE, hasPetWeight |-> FALSE]

\* The values the filter controls can hand to their handlers.
FilterValues ==
  [queryValue : {Str(<<>>), Str(<<"A">>)},
   petTypeFilter : {<<>>, <<Dog>>},
   stressLevelFilter : {<<>>, <<A>>},
   hasPetType : BOOLEAN, hasStressLevel : BOOLEAN, hasDrugUsage : BOOLEAN,
   hasPetAge : BOOLEAN, hasPetWeight : BOOLEAN]

FilterKeys == DOMAIN NoFilters

\* value?.toLowerCase().includes(searchTerm)
LowerIncludes(value, searchTerm) ==
  IF value.t = "string" THEN Includes(ToLowerCase(value.s), searchTerm)
  ELSE FALSE

\* array.includes(value) for an array of strings
ArrayIncludes(array, value) ==
  \E k \in 1..Len(array) : array[k].t = value.t /\ array[k] = value

\* The body of the Apply-filters effect up to setFilteredCustomers.
ApplyFilters(f, all) ==
  LET searchTerm == ToLowerCase(f.queryValue.s)
      s1 == IF Truthy(f.queryValue)
            THEN SelectSeq(all, LAMBDA c :
                   \/ LowerIncludes(c.firstName, searchTerm)
                   \/ LowerIncludes(c.lastName, searchTerm)
                   \/ LowerIncludes(c.email, searchTerm))
            ELSE all
      s2 == IF Len(f.petTypeFilter) > 0
            THEN SelectSeq(s1, LAMBDA c : ArrayIncludes(f.petTypeFilter, c.pet_type))
            ELSE s1
      s3 == IF Len(f.stressLevelFilter) > 0
            THEN SelectSeq(s2, LAMBDA c :
                   ArrayIncludes(f.stressLevelFilter, c.stress_level))
            ELSE s2
      s4 == IF f.hasPetType
            THEN SelectSeq(s3, LAMBDA c : FieldFilled(c.pet_type)) ELSE s3
      s5 == IF f.hasStressLevel
            THEN SelectSeq(s4, LAMBDA c : FieldFilled(c.stress_level)) ELSE s4
      s6 == IF f.hasDrugUsage
            THEN SelectSeq(s5, LAMBDA c : FieldFilled(c.drug_usage)) ELSE s5
      s7 == IF f.hasPetAge
            THEN SelectSeq(s6, LAMBDA c : FieldFilled(c.pet_age)) ELSE s6
  IN  IF f.hasPetWeight
      THEN SelectSeq(s7, LAMBDA c : FieldFilled(c.pet_weight)) ELSE s7

\* Math.ceil(a / b) for a >= 0, b > 0
Ceil(a, b) == (a + b - 1) \div b

Max(a, b) == IF a > b THEN a ELSE b

\* Array.prototype.slice(start, end) for 0 <= start <= end
Slice(array, start, end) ==
  SubSeq(array, Min(start, Len(array)) + 1, Min(end, Len(array)))

\* paginatedCustomers
paginatedCustomers ==
  LET startIndex == (currentPage - 1) * itemsPerPage
      endIndex == startIndex + itemsPerPage
  IN  Slice(filteredCustomers, startIndex, endIndex)

\* Mutant: the next page is taken whether it exists or not.
onNextUnbounded(prev) == prev + 1

\* The updater of onNext.
onNext(prev) ==
  IF prev < Ceil(Len(filteredCustomers), itemsPerPage) THEN prev + 1 ELSE prev

\* The updater of onPrevious.
onPrevious(prev) == Max(prev - 1, 1)

\* The page is mounted with the loader's customers; the effects of the
\* first render have run.
InitTable ==
  /\ CollectorIdle
  /\ ScorerIdle
  /\ PureIdle
  /\ SubmitIdle
  /\ FormIdle
  /\ RunsIdle
  /\ \E n \in TableSizes :
       loaderData = [customers |-> [i \in 1..n |-> TableCustomer(i)]]
  /\ filters = NoFilters
  /\ filteredCustomers = ApplyFilters(filters, loaderData.customers)
  /\ currentPage = 1
  /\ lastEvent = "mount"

\* One filter control hands a new value to its handler (a search text, a
\* choice, a checkbox, or the removal of an applied filter); the state
\* changes, and the Apply-filters effect runs.
FilterChange ==
  /\ \E key \in FilterKeys, new \in FilterValues :
       /\ new[key] # filters[key]
       /\ \A other \in FilterKeys \ {key} : new[other] = filters[other]
       /\ filters' = new
  /\ filteredCustomers' = ApplyFilters(filters', loaderData.customers)
  /\ currentPage' = 1
  /\ lastEvent' = "filter"
  /\ UNCHANGED <<loaderData, outsideTable>>

\* handleClearAll, and the Apply-filters effect when a filter was set.
ClearAll ==
  /\ filters' = NoFilters
  /\ filteredCustomers' =
       IF filters = NoFilters THEN loaderData.customers
       ELSE ApplyFilters(NoFilters, loaderData.customers)
  /\ currentPage' = 1
  /\ lastEvent' = "clearAll"
  /\ UNCHANGED <<loaderData, outsideTable>>

\* onNext of the Pagination
NextPage ==
  /\ currentPage' = onNext(currentPage)
  /\ lastEvent' = "next"
  /\ UNCHANGED <<loaderData, filters, filteredCustomers, outsideTable>>

\* onPrevious of the Pagination
PreviousPage ==
  /\ currentPage' = onPrevious(currentPage)
  /\ lastEvent' = "previous"
  /\ UNCHANGED <<loaderData, filters, filteredCustomers, outsideTable>>

NextTable ==
  \/ FilterChange
  \/ ClearAll
  \/ NextPage
  \/ PreviousPage

SpecTable == InitTable /\ [][NextTable]_vars

\* C29: after any sequence of next, previous, filter-change and clear-all
\* events, 1 <= currentPage <= max(1, ceil(filteredCount / 50)); a filter
\* change or clear-all leaves currentPage at 1; and the displayed slice is
\* a contiguous range of at most 50 of the filtered customers.
C29_TablePaging ==
  /\ 1 <= currentPage
  /\ currentPage <= Max(1, Ceil(Len(filteredCustomers), itemsPerPage))
  /\ lastEvent \in {"filter", "clearAll"} => currentPage = 1
  /\ Len(paginatedCustomers) <= itemsPerPage
  /\ \E first \in 1..(Len(filteredCustomers) + 1) :
       paginatedCustomers =
         SubSeq(filteredCustomers, first, first + Len(paginatedCustomers) - 1)

\* The last page of three is shown; it is not full.
C29_Witness ==
  /\ currentPage = 3
  /\ lastEvent = "next"
  /\ Len(filteredCustomers) > 2 * itemsPerPage
  /\ Len(paginatedCustomers) >= 1
  /\ Len(paginatedCustomers) < itemsPerPage


\* ---------------------------------------------------------------- dashboard
\* The records the dashboard's loader receives from the fixed-segment
\* collector: the five attributes are strings or null, and there is no
\* verifiedEmail property.
DashboardRecords ==
  {[f \in FieldSet |-> attrs[f]] @@ [verifiedEmail |-> Undefined] :
     attrs \in [FieldSet -> {Null, A}]}

DashboardLists == UNION {[1..k -> DashboardRecords] : k \in 0..MaxRecords}

\* customers.filter(c => !c[f] || c[f].trim() === '').length
MissingCount(customers, f) ==
  Len(SelectSeq(customers, LAMBDA c : ~FieldFilled(c[f])))

\* The useMemo customerData, without the monthly trends.
customerData(customers, totalCustomers, error) ==
  IF Truthy(error) \/ Len(customers) = 0
  THEN [totalCustomers |-> 0, verifiedEmails |-> 0, unverifiedEmails |-> 0,
        missingMetafields |-> <<>>]
  ELSE LET verifiedEmails ==
             Len(SelectSeq(customers, LAMBDA c : Truthy(c.verifiedEmail)))
       IN  [totalCustomers |-> totalCustomers,
            verifiedEmails |-> verifiedEmails,
            unverifiedEmails |-> totalCustomers - verifiedEmails,
            missingMetafields |->
              <<MissingCount(customers, "pet_type"),
                MissingCount(customers, "pet_weight"),
                MissingCount(customers, "drug_usage"),
                MissingCount(customers, "stress_level"),
                MissingCount(customers, "pet_age")>>]

RECURSIVE Sum(_)
Sum(numbers) ==
  IF numbers = <<>> THEN 0 ELSE Head(numbers) + Sum(Tail(numbers))

\* (num / den * 100).toFixed(1), as a number of tenths of a percent: the
\* nearest tenth, the larger one of two equally near.
ToFixedTenths(num, den) == (2 * num * 1000 + den) \div (2 * den)

ZeroTenths == 0

\* The useMemo overallDataCompleteness, in tenths of a percent.
overallDataCompleteness(data) ==
  LET totalFields == data.totalCustomers * Len(Fields)
      missingTotal == Sum(data.missingMetafields) + data.unverifiedEmails
  IN  IF totalFields > 0
      THEN ToFixedTenths(totalFields - missingTotal, totalFields)
      ELSE ZeroTenths

\* The dashboard is about to render with the loader data arg.
InitDashboard ==
  /\ CollectorIdle
  /\ ScorerIdle
  /\ SubmitIdle
  /\ FormIdle
  /\ RunsIdle
  /\ TableIdle
  /\ arg \in [customers : DashboardLists, error : {Null}]
  /\ ret = Pending

\* The dashboard renders: customerData and overallDataCompleteness are
\* computed from the loader data.
RenderDashboard ==
  /\ ret = Pending
  /\ ret' = Returned(Num(overallDataCompleteness(
              customerData(arg.customers, Len(arg.customers), arg.error))))
  /\ UNCHANGED <<outsidePure, arg>>

NextDashboard == RenderDashboard

SpecDashboard == InitDashboard /\ [][NextDashboard]_vars

\* C30 (as stated): for every collected customer list the overall data
\* completeness percentage lies between 0 and 100 inclusive.
C30_CompletenessBounded ==
  ret.t = "returned" => (0 <= ret.value.n /\ ret.value.n <= 1000)

====
